---- MODULE Spec2Model ----
(***************************************************************************)
(* State-machine model of the identity-and-replication storage core of     *)
(* radicle-link (librad/src/git/storage.rs, storage/pool.rs).              *)
(*                                                                         *)
(* The object backend is modelled as a map from reference names (sequences *)
(* of path components) to targets, plus the set of configured remotes.     *)
(* Commits are modelled by value: a commit is its tree together with the   *)
(* length of its first-parent chain.                                        *)
(***************************************************************************)
EXTENDS Integers, Sequences, FiniteSets, TLC

(***************************************************************************)
(* Universe and bounds                                                     *)
(***************************************************************************)
\* Longest first-parent chain of rad/refs commits kept for one identity.
MaxCommits == 2
\* Number of storage operations in one run.
MaxOps == 4
\* Number of Storage handles alive at once.
MaxHandles == 3
\* Number of pool tasks calling Manager::create concurrently.
MaxTasks == 3
\* Number of objects (trees and commits) written to the object database.
MaxObjects == 6
\* Number of rate-limited wrappers alive at once.
MaxWrappers == 2
\* Number of tokens replenished to one limiter.
MaxRefills == 1

\* Identity root hashes (Hash), in their textual form.
Ids == {"h1", "h2"}
\* Key pairs.  A key pair is named by the textual form of its public key,
\* which is also the PeerId derived from it.
Peers == {"p1", "p2"}
LocalPeer == "p1"
RemotePeers == Peers \ {LocalPeer}
\* The identities that are replicated from remote peers.
Replicated == {"h2"}

\* Secret keys (signers) and the public key of each.
Keys == {"k1", "k2"}
Public(key) == IF key = "k1" THEN "p1" ELSE "p2"
LocalKey == "k1"

\* PeerId::from(public key): the peer id wraps the public key.
PeerIdOf(pk) == pk
\* PeerId::from(&signer)
PeerIdOfSigner(key) == PeerIdOf(Public(key))

\* The peers that are tracked: the ones above and one that is never
\* fetched from.
TrackPeers == Peers \cup {"p3"}

\* peer.parse::<PeerId>() on the suffix of a remote name.
ParsesAsPeerId(s) == s \in TrackPeers

(***************************************************************************)
(* Reference names (Reference::to_string), section 4.1 of the layout       *)
(***************************************************************************)
NsPrefix(id) == <<"refs", "namespaces", id>>
RadId(id) == NsPrefix(id) \o <<"refs", "rad", "id">>
RadSelf(id) == NsPrefix(id) \o <<"refs", "rad", "self">>
RadRefs(id) == NsPrefix(id) \o <<"refs", "rad", "refs">>
RadCertifier(id, c) == NsPrefix(id) \o <<"refs", "rad", "ids", c>>
RemoteRadId(id, peer) == NsPrefix(id) \o <<"refs", "remotes", peer, "rad", "id">>
RemoteRadRefs(id, peer) == NsPrefix(id) \o <<"refs", "remotes", peer, "rad", "refs">>
RemoteRadCertifier(id, peer, c) ==
    NsPrefix(id) \o <<"refs", "remotes", peer, "rad", "ids", c>>

IsPrefix(p, s) == Len(p) <= Len(s) /\ SubSeq(s, 1, Len(p)) = p

\* The glob refs/namespaces/<id>/* : every name below the namespace.
InNamespace(name, id) == IsPrefix(NsPrefix(id), name) /\ Len(name) > 3

NamespaceRefs(rs, id) == {n \in DOMAIN rs : InNamespace(n, id)}

(***************************************************************************)
(* Targets, commits, blobs                                                 *)
(***************************************************************************)
Direct(commit) == [kind |-> "direct", oid |-> commit]
Symbolic(name) == [kind |-> "symbolic", to |-> name]

\* Cjson(meta).canonical_form() and Entity::from_json_slice.
EntityBlob(e) == [path |-> "id", json |-> "entity", doc |-> e]
GarbageBlob == [path |-> "id", json |-> "garbage"]
DecodesAsEntity(blob) == blob.json = "entity"

\* Refs::sign followed by Cjson(signed).canonical_form().
SignedRefsBlob(rr, key) ==
    [path |-> "refs", json |-> "signed_refs", refs |-> rr,
     signature |-> [key |-> key, over |-> rr]]

IdCommit(e) == [tree |-> EntityBlob(e), depth |-> 1]

\* A tree is held as the blob it is read for; a tree built elsewhere may
\* have further entries beside that blob.
PaddedEntityBlob(e) == [path |-> "id", json |-> "entity", doc |-> e, beside |-> {"README"}]
TreeEntries(tree) ==
    {tree.path} \cup (IF "beside" \in DOMAIN tree THEN tree.beside ELSE {})

(***************************************************************************)
(* Identity documents                                                      *)
(***************************************************************************)
OwnedKey == "OwnedKey"

Sig(key, by) == <<key, by>>
Entity(h, sigs, certs) == [root_hash |-> h, signatures |-> sigs, certifiers |-> certs]

\* The identity documents handed to create_repo or served by remote peers:
\* the local user's identity h1 and a project h2 certified by h1, in the
\* signature states the operations distinguish.
LocalUser == Entity("h1", {Sig("p1", OwnedKey)}, {})
Project == Entity("h2", {Sig("p1", "h1"), Sig("p2", OwnedKey)}, {"h1"})
OwnedProject == Entity("h2", {Sig("p1", OwnedKey)}, {"h1"})
RemoteProject == Entity("h2", {Sig("p2", "h1")}, {})
UnsignedProject == Entity("h2", {}, {})

Entities == {LocalUser, Project, OwnedProject, RemoteProject, UnsignedProject}

\* A project with several foreign signers: p2 with its own key, p3 as the
\* user h1.
SharedProject ==
    Entity("h2", {Sig("p1", "h1"), Sig("p2", OwnedKey), Sig("p3", "h1")}, {"h1"})

\* meta.signatures().get(&pk)
SignatureBy(e, key) == {s \in e.signatures : s[1] = key}

\* RadUrn: the identity hash and a path (empty by default).
Urn(id) == [id |-> id, path |-> <<>>]
\* RadUrl: a URN and the peer that is asked for it.
Url(id, peer) == [urn |-> Urn(id), authority |-> peer]

(***************************************************************************)
(* The store: references and configured remotes                            *)
(***************************************************************************)
Store(rs, rm) == [refs |-> rs, remotes |-> rm]
EmptyStore == Store(<<>>, {})

\* The outcome of an operation: the store it leaves, its result, the
\* backend and fetcher calls it made, and the error's payload.
Ret(st, res, steps, detail) ==
    [st |-> st, res |-> res, steps |-> steps, detail |-> detail]

Put(rs, name, target) ==
    [n \in DOMAIN rs \cup {name} |-> IF n = name THEN target ELSE rs[n]]
Drop(rs, names) == [n \in DOMAIN rs \ names |-> rs[n]]

NoCommit == [tree |-> [path |-> "", json |-> "none"], depth |-> 0]

\* Reference::peel_to_commit: follow symbolic references to a commit.
RECURSIVE Peel(_, _, _)
Peel(rs, name, fuel) ==
    IF name \notin DOMAIN rs \/ fuel = 0 THEN NoCommit
    ELSE IF rs[name].kind = "direct" THEN rs[name].oid
    ELSE Peel(rs, rs[name].to, fuel - 1)

\* Blob::Tip{branch, path}.get: the blob `path` in the tree of the tip.
BlobAtTip(rs, name, path) ==
    LET commit == Peel(rs, name, 5)
    IN  IF commit = NoCommit \/ commit.tree.path # path
        THEN [found |-> FALSE]
        ELSE [found |-> TRUE, blob |-> commit.tree]

\* Storage::metadata_from_reference: the blob `id` at the tip, decoded.
MetadataFromReference(st, name) ==
    LET tip == BlobAtTip(st.refs, name, "id")
    IN  IF ~tip.found THEN [res |-> "Blob"]
        ELSE IF ~DecodesAsEntity(tip.blob) THEN [res |-> "Entity"]
        ELSE [res |-> "Ok", meta |-> tip.blob.doc]

\* Storage::metadata
Metadata(st, urn) == MetadataFromReference(st, RadId(urn.id))

\* Storage::has_ref
HasRef(st, name) == name \in DOMAIN st.refs

\* The paths a URN is given: none, the identity branch with and without
\* the leading refs/, the signed snapshot, a branch, and the lone word refs.
UrnPaths ==
    {<<>>, <<"refs", "rad", "id">>, <<"rad", "id">>, <<"rad", "refs">>,
     <<"refs", "heads", "master">>, <<"refs">>}

\* The branch of a URN without the default for an empty path.
UrnBranchNoDefault(urn) ==
    IF Len(urn.path) > 1 /\ urn.path[1] = "refs" THEN Tail(urn.path) ELSE urn.path

\* urn.path.deref_or_default() with a leading refs/ stripped.
UrnBranch(urn) ==
    LET branch == IF urn.path = <<>> THEN <<"refs", "rad", "id">> ELSE urn.path
    IN  IF Len(branch) > 1 /\ branch[1] = "refs" THEN Tail(branch) ELSE branch

\* has_urn looking the branch up without the refs/ segment.
HasUrnWrongName(st, urn) == NsPrefix(urn.id) \o UrnBranch(urn) \in DOMAIN st.refs

\* Storage::has_urn
HasUrn(st, urn) == NsPrefix(urn.id) \o <<"refs">> \o UrnBranch(urn) \in DOMAIN st.refs

\* tracking_remote_name
TrackingRemoteName(id, peer) == <<id, peer>>

\* Storage::tracked / Tracked::next
Tracked(st, id) ==
    {r[2] : r \in {x \in st.remotes : x[1] = id /\ ParsesAsPeerId(x[2])}}

(***************************************************************************)
(* Signed snapshots of the reference state                                 *)
(***************************************************************************)
\* Refs{heads, remotes}.  Remotes<PeerId> is a tree of peers, held as the
\* set of its paths from the root: <<p>> for a tracked peer p, <<p, q>> for
\* a peer q that p tracks, and so on.
RefsValue(heads, remotes) == [heads |-> heads, remotes |-> remotes]

\* The number of levels of a Remotes tree.
RemotesDepth(remotes) ==
    IF remotes = {} THEN 0
    ELSE CHOOSE d \in {Len(p) : p \in remotes} : \A p \in remotes : Len(p) <= d

\* refs::Signed::from_json(content, &peer): decode and verify against peer.
VerifiedRefs(blob, peer) ==
    IF blob.json # "signed_refs" THEN [ok |-> FALSE]
    ELSE IF blob.signature.key # peer \/ blob.signature.over # blob.refs
    THEN [ok |-> FALSE]
    ELSE [ok |-> TRUE, refs |-> blob.refs]

\* Storage::rad_refs_of
RadRefsOf(st, id, peer) ==
    LET tip == BlobAtTip(st.refs, RemoteRadRefs(id, peer), "refs")
    IN  IF ~tip.found THEN [res |-> "BlobNotFound"]
        ELSE LET signed == VerifiedRefs(tip.blob, peer)
             IN  IF signed.ok THEN [res |-> "Ok", refs |-> signed.refs]
                 ELSE [res |-> "Refsig"]

\* Remotes::cutoff: keep the first two levels of a peer's remotes.
Cutoff(remotes) == {p \in remotes : Len(p) <= 2}

\* references_glob(urn, "refs/heads/*"), names relative to the namespace.
Heads(st, id) ==
    {<<SubSeq(n, 4, Len(n)), Peel(st.refs, n, 5)>> :
        n \in {m \in DOMAIN st.refs :
                 IsPrefix(NsPrefix(id) \o <<"refs", "heads">>, m) /\ Len(m) > 5}}

\* rad_refs taking each tracked peer's remotes whole.
RadRefsNowUncut(st, id) ==
    LET tracked == Tracked(st, id)
        theirs == [p \in tracked |-> RadRefsOf(st, id, p)]
    IN  IF \E p \in tracked : theirs[p].res = "Refsig"
        THEN [res |-> "Refsig"]
        ELSE [res |-> "Ok",
              refs |-> RefsValue(
                  Heads(st, id),
                  {<<p>> : p \in tracked} \cup
                  UNION {{<<p>> \o q : q \in theirs[p].refs.remotes} :
                            p \in {t \in tracked : theirs[t].res = "Ok"}})]

\* Storage::rad_refs
RadRefsNow(st, id) ==
    LET tracked == Tracked(st, id)
        theirs == [p \in tracked |-> RadRefsOf(st, id, p)]
    IN  IF \E p \in tracked : theirs[p].res = "Refsig"
        THEN [res |-> "Refsig"]
        ELSE [res |-> "Ok",
              refs |-> RefsValue(
                  Heads(st, id),
                  {<<p>> : p \in tracked} \cup
                  UNION {{<<p>> \o q : q \in Cutoff(theirs[p].refs.remotes)} :
                            p \in {t \in tracked : theirs[t].res = "Ok"}})]

(***************************************************************************)
(* Mutations                                                               *)
(***************************************************************************)
\* delete_repo with a glob whose * stops at a slash: it matches no name
\* below refs/namespaces/<id>/refs/.
DeleteRepoOneLevel(st, id) ==
    Store(Drop(st.refs, {n \in NamespaceRefs(st.refs, id) : Len(n) = 4}), st.remotes)

\* delete_repo with the glob refs/namespaces/*: every namespace.
DeleteRepoEverywhere(st, id) ==
    Store(Drop(st.refs, {n \in DOMAIN st.refs : IsPrefix(<<"refs", "namespaces">>, n)}),
          st.remotes)

\* Storage::delete_repo
DeleteRepo(st, id) ==
    Store(Drop(st.refs, NamespaceRefs(st.refs, id)), st.remotes)

\* track without the comparison to the own peer id.
TrackAnyPeer(st, id, peer, fails) ==
    IF fails THEN Ret(st, "Git", {"remote"}, <<>>)
    ELSE Ret(Store(st.refs, st.remotes \cup {TrackingRemoteName(id, peer)}),
             "Ok", {"remote"}, <<>>)

\* track that passes the backend's "exists" error on.
TrackOnce(st, id, peer, fails) ==
    IF peer = LocalPeer THEN Ret(st, "SelfReferential", {}, <<>>)
    ELSE IF fails \/ TrackingRemoteName(id, peer) \in st.remotes
    THEN Ret(st, "Git", {"remote"}, <<>>)
    ELSE Ret(Store(st.refs, st.remotes \cup {TrackingRemoteName(id, peer)}),
             "Ok", {"remote"}, <<>>)

\* Storage::track.  `fails` is a backend error other than "exists".
Track(st, id, peer, fails) ==
    IF peer = LocalPeer THEN Ret(st, "SelfReferential", {}, <<>>)
    ELSE IF fails THEN Ret(st, "Git", {"remote"}, <<>>)
    ELSE Ret(Store(st.refs, st.remotes \cup {TrackingRemoteName(id, peer)}),
             "Ok", {"remote"}, <<>>)

\* untrack that answers success and deletes nothing.
UntrackNothing(st, id, peer) ==
    IF TrackingRemoteName(id, peer) \in st.remotes
    THEN Ret(st, "Ok", {"remote_delete"}, <<>>)
    ELSE Ret(st, "Git", {"remote_delete"}, <<>>)

\* Storage::untrack
Untrack(st, id, peer) ==
    IF TrackingRemoteName(id, peer) \in st.remotes
    THEN Ret(Store(st.refs, st.remotes \ {TrackingRemoteName(id, peer)}),
             "Ok", {"remote_delete"}, <<>>)
    ELSE Ret(st, "Git", {"remote_delete"}, <<>>)

\* The track calls of track_signers as <<urn id, peer>>, in the order of
\* the signature map: the signer's view of this identity, then of the
\* identity the signer signed with (if any).
RECURSIVE TrackCalls(_, _)
TrackCalls(id, sigs) ==
    IF sigs = {} THEN <<>>
    ELSE LET s == CHOOSE x \in sigs : TRUE
             peer == PeerIdOf(s[1])
             calls == IF s[2] = OwnedKey
                      THEN << <<id, peer>> >>
                      ELSE << <<id, peer>>, <<s[2], peer>> >>
         IN  calls \o TrackCalls(id, sigs \ {s})

RECURSIVE TrackEach(_, _, _, _)
TrackEach(st, calls, n, failAt) ==
    IF n > Len(calls) THEN Ret(st, "Ok", {}, <<>>)
    ELSE LET r == Track(st, calls[n][1], calls[n][2], n = failAt)
         IN  IF r.res # "Ok" THEN r
             ELSE LET rest == TrackEach(r.st, calls, n + 1, failAt)
                  IN  Ret(rest.st, rest.res, r.steps \cup rest.steps, rest.detail)

\* The glob refs/namespaces/*/rad/id, `*` running across path separators.
IsIdentityRef(name) ==
    /\ Len(name) >= 5
    /\ IsPrefix(<<"refs", "namespaces">>, name)
    /\ SubSeq(name, Len(name) - 1, Len(name)) = <<"rad", "id">>

\* Storage::all_metadata: one result per reference the glob yields.
AllMetadata(st) ==
    [n \in {x \in DOMAIN st.refs : IsIdentityRef(x)} |-> MetadataFromReference(st, n)]

\* track_signers that tracks nobody.
TrackSignersNobody(st, e, failAt) == Ret(st, "Ok", {}, <<>>)

\* Storage::track_signers.  failAt = 0: no backend error.
TrackSigners(st, e, failAt) ==
    LET foreign == {s \in e.signatures : PeerIdOf(s[1]) # LocalPeer}
    IN  TrackEach(st, TrackCalls(e.root_hash, foreign), 1, failAt)

\* update_refs that skips the commit whenever rad/refs has a tip.
UpdateRefsOnlyOnce(st, id, fails) ==
    LET rr == RadRefsNow(st, id)
    IN  IF rr.res # "Ok" THEN Ret(st, rr.res, {}, <<>>)
        ELSE
        LET tree == SignedRefsBlob(rr.refs, LocalPeer)
            parent == Peel(st.refs, RadRefs(id), 5)
        IN  IF parent # NoCommit
            THEN Ret(st, "Ok", {}, <<>>)
            ELSE IF fails THEN Ret(st, "Git", {"commit_refs"}, <<>>)
            ELSE Ret(Store(Put(st.refs, RadRefs(id),
                               Direct([tree |-> tree, depth |-> parent.depth + 1])),
                           st.remotes),
                     "Ok", {"commit_refs"}, <<>>)

\* update_refs without the same-tree guard.
UpdateRefsAlwaysCommits(st, id, fails) ==
    LET rr == RadRefsNow(st, id)
    IN  IF rr.res # "Ok" THEN Ret(st, rr.res, {}, <<>>)
        ELSE
        LET tree == SignedRefsBlob(rr.refs, LocalPeer)
            parent == Peel(st.refs, RadRefs(id), 5)
        IN  IF fails THEN Ret(st, "Git", {"commit_refs"}, <<>>)
            ELSE Ret(Store(Put(st.refs, RadRefs(id),
                               Direct([tree |-> tree, depth |-> parent.depth + 1])),
                           st.remotes),
                     "Ok", {"commit_refs"}, <<>>)

\* Storage::update_refs.  `fails` is a backend error when committing.
UpdateRefs(st, id, fails) ==
    LET rr == RadRefsNow(st, id)
    IN  IF rr.res # "Ok" THEN Ret(st, rr.res, {}, <<>>)
        ELSE
        LET tree == SignedRefsBlob(rr.refs, LocalPeer)
            parent == Peel(st.refs, RadRefs(id), 5)
        IN  IF parent # NoCommit /\ parent.tree = tree
            THEN Ret(st, "Ok", {}, <<>>)
            ELSE IF fails THEN Ret(st, "Git", {"commit_refs"}, <<>>)
            ELSE Ret(Store(Put(st.refs, RadRefs(id),
                               Direct([tree |-> tree, depth |-> parent.depth + 1])),
                           st.remotes),
                     "Ok", {"commit_refs"}, <<>>)

\* The identities whose document is a User; the others are projects.
Users == {"h1"}

\* RadSelfSpec, and None for the removal of rad/self.
RadSelfSpecs ==
    {[kind |-> "None"], [kind |-> "Default"]} \cup
    {[kind |-> "Urn", urn |-> Urn(v)] : v \in Ids}

\* set_rad_self creating the symbolic reference without force: an existing
\* rad/self is left as it is and the call fails.
SetRadSelfUnforced(st, id, spec, configured, valid) ==
    IF spec.kind = "None"
    THEN IF RadSelf(id) \in DOMAIN st.refs
         THEN Ret(Store(Drop(st.refs, {RadSelf(id)}), st.remotes), "Ok", {"delete"}, <<>>)
         ELSE Ret(st, "Ok", {}, <<>>)
    ELSE
    LET self_id == IF spec.kind = "Default" THEN configured ELSE spec.urn.id
        meta == Metadata(st, Urn(self_id))
    IN  IF spec.kind = "Default" /\ configured = "" THEN Ret(st, "Config", {}, <<>>)
        ELSE IF meta.res # "Ok" THEN Ret(st, meta.res, {}, <<>>)
        ELSE IF self_id \notin Users THEN Ret(st, "Entity", {}, <<>>)
        ELSE IF spec.kind = "Urn" /\ ~valid THEN Ret(st, "Config", {}, <<>>)
        ELSE IF RadSelf(id) \in DOMAIN st.refs THEN Ret(st, "Git", {"symref"}, <<>>)
        ELSE Ret(Store(Put(st.refs, RadSelf(id), Symbolic(RadId(self_id))), st.remotes),
                 "Ok", {"symref"}, <<>>)

\* Storage::set_rad_self.  `configured` is the user the configuration
\* names ("" when it names none), `valid` what guard_user_valid answers.
SetRadSelf(st, id, spec, configured, valid) ==
    IF spec.kind = "None"
    THEN IF RadSelf(id) \in DOMAIN st.refs
         THEN Ret(Store(Drop(st.refs, {RadSelf(id)}), st.remotes), "Ok", {"delete"}, <<>>)
         ELSE Ret(st, "Ok", {}, <<>>)
    ELSE
    LET self_id == IF spec.kind = "Default" THEN configured ELSE spec.urn.id
        meta == Metadata(st, Urn(self_id))
        linked == Ret(Store(Put(st.refs, RadSelf(id), Symbolic(RadId(self_id))), st.remotes),
                      "Ok", {"symref"}, <<>>)
    IN  IF spec.kind = "Default" /\ configured = "" THEN Ret(st, "Config", {}, <<>>)
        ELSE IF meta.res # "Ok" THEN Ret(st, meta.res, {}, <<>>)
        ELSE IF self_id \notin Users THEN Ret(st, "Entity", {}, <<>>)
        ELSE IF spec.kind = "Urn" /\ ~valid THEN Ret(st, "Config", {}, <<>>)
        ELSE linked

\* Storage::commit_initial_meta.  The backend refuses a parentless commit
\* onto a reference that already has a tip.
CommitInitialMeta(st, e, fails) ==
    IF fails \/ RadId(e.root_hash) \in DOMAIN st.refs
    THEN Ret(st, "Git", {"commit_id"}, <<>>)
    ELSE Ret(Store(Put(st.refs, RadId(e.root_hash), Direct(IdCommit(e))), st.remotes),
             "Ok", {"commit_id"}, <<>>)

\* The backend error injected into one call of an operation, if any.
Faults ==
    {"none", "commit_id", "symref_self", "symref_ids", "track1", "track2",
     "commit_refs", "adopt", "fetch_commit_refs"}

FaultIndex(fault) == IF fault = "track1" THEN 1 ELSE IF fault = "track2" THEN 2 ELSE 0

\* Sequencing with `?`: run `next` on the store left by `r` if r succeeded.
Then(r, next) ==
    IF r.res # "Ok" THEN r
    ELSE Ret(next.st, next.res, r.steps \cup next.steps, next.detail)

\* The symbolic references of create_repo without rad/self.
CreateSymrefsIdsOnly(st, e, rad_self_target, fault) ==
    LET id == e.root_hash
        withIds == [n \in DOMAIN st.refs \cup {RadCertifier(id, c) : c \in e.certifiers} |->
                       IF \E c \in e.certifiers : n = RadCertifier(id, c)
                       THEN Symbolic(RadId(n[Len(n)]))
                       ELSE st.refs[n]]
    IN  IF fault = "symref_self" THEN Ret(st, "Git", {"symref"}, <<>>)
        ELSE IF fault = "symref_ids" /\ e.certifiers # {}
        THEN Ret(st, "Git", {"symref"}, <<>>)
        ELSE Ret(Store(withIds, st.remotes), "Ok", {"symref"}, <<>>)

\* The symbolic references of create_repo (forced): rad/self first, then
\* one rad/ids link per certifier; the first failure stops the loop.
CreateSymrefs(st, e, rad_self_target, fault) ==
    LET id == e.root_hash
        withSelf == Put(st.refs, RadSelf(id), Symbolic(rad_self_target))
        withIds == [n \in DOMAIN withSelf \cup {RadCertifier(id, c) : c \in e.certifiers} |->
                       IF \E c \in e.certifiers : n = RadCertifier(id, c)
                       THEN Symbolic(RadId(n[Len(n)]))
                       ELSE withSelf[n]]
    IN  IF fault = "symref_self" THEN Ret(st, "Git", {"symref"}, <<>>)
        ELSE IF fault = "symref_ids" /\ e.certifiers # {}
        THEN Ret(Store(withSelf, st.remotes), "Git", {"symref"}, <<>>)
        ELSE Ret(Store(withIds, st.remotes), "Ok", {"symref"}, <<>>)

\* A certifier check that finds every certifier.
MissingCertifiersNone(st, e) == {}

\* The certifiers of create_repo's loop that has_urn does not find.
MissingCertifiers(st, e) == {c \in e.certifiers : ~HasUrn(st, Urn(c))}

\* The checks of create_repo with the certifiers looked at before rad/self.
CreateChecksCertifiersFirst(st, e) ==
    LET id == e.root_hash
        self_sig == SignatureBy(e, LocalPeer)
        by == (CHOOSE s \in self_sig : TRUE)[2]
        rad_id == RadId(id)
        rad_self_target == IF by = OwnedKey THEN rad_id ELSE RadId(by)
        missing == MissingCertifiers(st, e)
    IN  IF e.signatures = {} THEN Ret(st, "UnsignedMetadata", {}, <<>>)
        ELSE IF self_sig = {} THEN Ret(st, "NotSignedBySelf", {}, <<>>)
        ELSE IF missing # {}
        THEN Ret(st, "MissingCertifier", {}, <<CHOOSE c \in missing : TRUE, id>>)
        ELSE IF rad_id # rad_self_target /\ ~HasRef(st, rad_self_target)
        THEN Ret(st, "NoSelf", {}, rad_self_target)
        ELSE Ret(st, "Ok", {}, <<>>)

\* The checks create_repo makes before it writes: each returns early.
CreateChecks(st, e) ==
    LET id == e.root_hash
        self_sig == SignatureBy(e, LocalPeer)
        by == (CHOOSE s \in self_sig : TRUE)[2]
        rad_id == RadId(id)
        rad_self_target == IF by = OwnedKey THEN rad_id ELSE RadId(by)
        missing == MissingCertifiers(st, e)
    IN  IF e.signatures = {} THEN Ret(st, "UnsignedMetadata", {}, <<>>)
        ELSE IF self_sig = {} THEN Ret(st, "NotSignedBySelf", {}, <<>>)
        ELSE IF rad_id # rad_self_target /\ ~HasRef(st, rad_self_target)
        THEN Ret(st, "NoSelf", {}, rad_self_target)
        ELSE IF missing # {}
        THEN Ret(st, "MissingCertifier", {}, <<CHOOSE c \in missing : TRUE, id>>)
        ELSE Ret(st, "Ok", {}, <<>>)

\* Storage::create_repo
CreateRepo(st, e, fault) ==
    LET id == e.root_hash
        self_sig == SignatureBy(e, LocalPeer)
        by == (CHOOSE s \in self_sig : TRUE)[2]
        rad_id == RadId(id)
        rad_self_target == IF by = OwnedKey THEN rad_id ELSE RadId(by)
        checked == CreateChecks(st, e)
    IN  IF checked.res # "Ok" THEN checked
        ELSE
        LET committed == CommitInitialMeta(st, e, fault = "commit_id")
        IN  IF committed.res # "Ok" THEN committed
            ELSE
            LET linked == CreateSymrefs(committed.st, e, rad_self_target, fault)
            IN  IF linked.res # "Ok"
                THEN Ret(DeleteRepo(linked.st, id), linked.res,
                         committed.steps \cup linked.steps \cup {"delete_repo"}, <<>>)
                ELSE
                LET tracked == TrackSigners(linked.st, e, FaultIndex(fault))
                    updated == UpdateRefs(tracked.st, id, fault = "commit_refs")
                IN  Then(committed, Then(linked, Then(tracked, updated)))

(***************************************************************************)
(* The fetcher (external collaborator, section 4.8)                        *)
(***************************************************************************)
\* What a remote peer may serve as the `id` blob of its rad/id.
RemoteIdBlobs ==
    {EntityBlob(e) : e \in {LocalUser, Project, RemoteProject, UnsignedProject}}
        \cup {PaddedEntityBlob(RemoteProject), GarbageBlob}

PrefetchOutcomes ==
    {[ok |-> FALSE]} \cup {[ok |-> TRUE, blob |-> b] : b \in RemoteIdBlobs}

\* Fetcher::prefetch: pull the remote's rad/id into remotes/<peer>/rad/id.
Prefetch(st, id, peer, pre) ==
    IF ~pre.ok THEN Ret(st, "Fetch", {"fetcher_new", "prefetch"}, <<>>)
    ELSE Ret(Store(Put(st.refs, RemoteRadId(id, peer),
                       Direct([tree |-> pre.blob, depth |-> 1])),
                   st.remotes),
             "Ok", {"fetcher_new", "prefetch"}, <<>>)

\* The reference state a remote peer publishes: it tracks the local peer,
\* which tracks it, and so on, four levels deep.
PublishedRefs(peer) ==
    RefsValue({}, {<<LocalPeer>>, <<LocalPeer, peer>>, <<LocalPeer, peer, LocalPeer>>,
                   <<LocalPeer, peer, LocalPeer, peer>>})

\* The names a remote peer advertises below its rad/ids/: its certifier
\* and a name that is no hash.
CertifierNames == {"h1", "junk"}

\* A fetch fails, or succeeds and leaves the remote's snapshot as it was,
\* or replaces it by one that verifies or by one that does not.
FetchOutcomes ==
    {[ok |-> FALSE]} \cup
    {[ok |-> TRUE, snapshot |-> s, ids |-> CertifierNames] :
        s \in {"keep", "valid", "forged"}}

\* Fetcher::fetch: pull the remote's signed snapshot and certifier
\* references into remotes/<peer>/.
Fetch(st, id, peer, fo) ==
    IF ~fo.ok THEN Ret(st, "Fetch", {"fetch"}, <<>>)
    ELSE
    LET signer == IF fo.snapshot = "valid" THEN peer ELSE LocalPeer
        snap == [tree |-> SignedRefsBlob(PublishedRefs(peer), signer), depth |-> 1]
        withSnap == IF fo.snapshot = "keep" THEN st.refs
                    ELSE Put(st.refs, RemoteRadRefs(id, peer), Direct(snap))
        names == {RemoteRadCertifier(id, peer, c) : c \in fo.ids}
        withIds == [n \in DOMAIN withSnap \cup names |->
                       IF n \in names THEN Direct(IdCommit(LocalUser))
                       ELSE withSnap[n]]
    IN  Ret(Store(withIds, st.remotes), "Ok", {"fetch"}, <<>>)

(***************************************************************************)
(* clone_repo, fetch_repo                                                  *)
(***************************************************************************)
\* certifier_ref.parse::<Hash>(): the text must be a hash and nothing else.
ParsesAsHash(name) == Len(name) = 1 /\ name[1] \in Ids

\* The certifier loop parsing the last segment of each name as the hash.
RECURSIVE SymrefCertifiersBySegment(_, _, _)
SymrefCertifiersBySegment(st, id, names) ==
    IF names = {} THEN Ret(st, "Ok", {}, <<>>)
    ELSE LET n == CHOOSE x \in names : TRUE
             h == n[Len(n)]
             here == RadCertifier(id, h)
         IN  IF h \notin Ids THEN SymrefCertifiersBySegment(st, id, names \ {n})
             ELSE IF here \in DOMAIN st.refs THEN Ret(st, "Git", {"symref"}, <<>>)
             ELSE LET rest == SymrefCertifiersBySegment(
                                  Store(Put(st.refs, here, Symbolic(RadId(h))),
                                        st.remotes),
                                  id, names \ {n})
                  IN  Ret(rest.st, rest.res, rest.steps \cup {"symref"}, rest.detail)

\* The certifier loop of fetch_internal: for every name the glob yields
\* that parses as a hash, a symbolic reference created without force.
RECURSIVE SymrefCertifiers(_, _, _)
SymrefCertifiers(st, id, names) ==
    IF names = {} THEN Ret(st, "Ok", {}, <<>>)
    ELSE LET n == CHOOSE x \in names : TRUE
             here == RadCertifier(id, n[1])
         IN  IF ~ParsesAsHash(n) THEN SymrefCertifiers(st, id, names \ {n})
             ELSE IF here \in DOMAIN st.refs THEN Ret(st, "Git", {"symref"}, <<>>)
             ELSE LET rest == SymrefCertifiers(
                                  Store(Put(st.refs, here, Symbolic(RadId(n[1]))),
                                        st.remotes),
                                  id, names \ {n})
                  IN  Ret(rest.st, rest.res, rest.steps \cup {"symref"}, rest.detail)

\* Storage::fetch_internal
FetchInternal(st, id, remote_peer, fo, fault) ==
    LET rad_refs == RadRefsNow(st, id)
    IN  IF rad_refs.res # "Ok" THEN Ret(st, rad_refs.res, {}, <<>>)
        ELSE
        LET fetched == Fetch(st, id, remote_peer, fo)
            glob == NsPrefix(id) \o <<"refs", "remotes", remote_peer, "rad", "ids">>
            names == {n \in DOMAIN fetched.st.refs : IsPrefix(glob, n) /\ Len(n) > Len(glob)}
            linked == SymrefCertifiers(fetched.st, id, names)
            updated == UpdateRefs(linked.st, id, fault = "fetch_commit_refs")
        IN  Then(fetched, Then(linked, updated))

\* Storage::fetch_repo
FetchRepo(st, url, fo, fault) ==
    LET r == FetchInternal(st, url.urn.id, url.authority, fo, fault)
    IN  Ret(r.st, r.res, r.steps \cup {"fetcher_new"}, r.detail)

\* Storage::clone_repo
CloneRepo(st, url, pre, fo, fault) ==
    LET id == url.urn.id
        remote_peer == url.authority
        urn == Urn(id)
    IN  IF HasUrn(st, urn) THEN Ret(st, "AlreadyExists", {}, <<id>>)
        ELSE
        LET prefetched == Prefetch(st, id, remote_peer, pre)
        IN  IF prefetched.res # "Ok" THEN prefetched
        ELSE
        LET tip == BlobAtTip(prefetched.st.refs, RemoteRadId(id, remote_peer), "id")
        IN  IF ~tip.found THEN Ret(prefetched.st, "Blob", prefetched.steps, <<>>)
        ELSE IF ~DecodesAsEntity(tip.blob)
        THEN Ret(prefetched.st, "Entity", prefetched.steps, <<>>)
        ELSE
        LET meta == tip.blob.doc
            invalid == IF meta.signatures = {} THEN "UnsignedMetadata"
                       ELSE IF meta.root_hash # id THEN "RootHashMismatch"
                       ELSE "Ok"
        IN  IF invalid # "Ok"
            THEN Ret(DeleteRepo(prefetched.st, id), invalid,
                     prefetched.steps \cup {"delete_repo"},
                     IF invalid = "RootHashMismatch" THEN <<id, meta.root_hash>> ELSE <<>>)
            ELSE
            LET remote_id_head == Peel(prefetched.st.refs, RemoteRadId(id, remote_peer), 5)
                adopted ==
                    IF fault = "adopt" \/ RadId(id) \in DOMAIN prefetched.st.refs
                    THEN Ret(prefetched.st, "Git", {"adopt"}, <<>>)
                    ELSE Ret(Store(Put(prefetched.st.refs, RadId(id), Direct(remote_id_head)),
                                   prefetched.st.remotes),
                             "Ok", {"adopt"}, <<>>)
                tracked == TrackSigners(adopted.st, meta, FaultIndex(fault))
                updated == UpdateRefs(tracked.st, id, fault = "commit_refs")
                fetched == FetchInternal(updated.st, id, remote_peer, fo, fault)
            IN  Then(prefetched, Then(adopted, Then(tracked, Then(updated, fetched))))

(***************************************************************************)
(* State                                                                   *)
(***************************************************************************)
VARIABLES
    refs,       \* the references of the store: name -> target
    remotes,    \* the remotes configured in the store: <<urn id, peer>>
    last,       \* the operation that ran last and what it returned
    ops,        \* the number of operations run so far
    disk,       \* the store at the path: absent, bare (no config yet) or ready
    handles,    \* the Storage handles alive: <<peer_id, signer>> records
    pc,         \* pool: where each task is in Manager::create
    init_lock,  \* pool: the task holding Config::init_lock, or 0
    made,       \* pool: what each task's create returned
    origin,     \* the store of the peer replicated from, as that peer holds it
    odb,        \* the object database by oid: commits with their parents, trees
    limiters,   \* the rate limiters made so far: tokens left, tokens replenished
    wrappers,   \* the rate-limited Storage wrappers alive, each with its limiter
    calls       \* two handles on one store: the call each is in, and where

vars == <<refs, remotes, last, ops, disk, handles, pc, init_lock, made, origin, odb, limiters,
          wrappers, calls>>
storeVars == <<refs, remotes>>
openVars == <<disk, handles>>
poolVars == <<pc, init_lock, made>>
otherVars == <<origin, odb, limiters, wrappers, calls>>

\* Two Storage handles opened on the same store, and a handle that is in
\* no call.
RaceHandles == {"a", "b"}
IdleCall == [op |-> "", pc |-> "idle", id |-> "", arg |-> <<>>, res |-> ""]

\* Nothing has happened outside the store at hand.
OthersIdle ==
    /\ origin = EmptyStore
    /\ odb = <<>>
    /\ limiters = <<>>
    /\ wrappers = <<>>
    /\ calls = [h \in RaceHandles |-> IdleCall]

\* What the fetcher served to the operation, if it ran one.
NothingServed == [ok |-> FALSE]

\* The rad/refs history of every identity stays within the bound.
WithinBounds(st) ==
    \A id \in Ids : Peel(st.refs, RadRefs(id), 5).depth <= MaxCommits

\* An operation on identity `id` (and peer `peer`, or "" when it takes
\* none) returns r: the store is as r leaves it.
\* `existed` records whether the identity's rad/id was there at the call.
Returns(op, id, peer, r, served) ==
    /\ ops' = ops + 1
    /\ UNCHANGED <<openVars, poolVars, otherVars>>
    /\ WithinBounds(r.st)
    /\ refs' = r.st.refs
    /\ remotes' = r.st.remotes
    /\ last' = [op |-> op, id |-> id, peer |-> peer, res |-> r.res, steps |-> r.steps,
                detail |-> r.detail, existed |-> RadId(id) \in DOMAIN refs,
                served |-> IF "prefetch" \in r.steps THEN served ELSE NothingServed]

NoSigner == ""
Handle(peer_id, signer) == [peer_id |-> peer_id, signer |-> signer]
Absent == [state |-> "absent", peer_id |-> ""]
Bare == [state |-> "bare", peer_id |-> ""]
Ready(peer_id) == [state |-> "ready", peer_id |-> peer_id]

Tasks == 1..MaxTasks

FirstOutcome ==
    [op |-> "open", id |-> "", peer |-> "", res |-> "Ok", steps |-> {},
     detail |-> <<>>, existed |-> FALSE, served |-> NothingServed]

\* The storage operations run on one handle of an initialised store.
Init ==
    /\ refs = <<>>
    /\ remotes = {}
    /\ ops = 0
    /\ last = FirstOutcome
    /\ disk = Ready(PeerIdOfSigner(LocalKey))
    /\ handles = <<Handle(PeerIdOfSigner(LocalKey), LocalKey)>>
    /\ pc = [t \in Tasks |-> "idle"]
    /\ init_lock = 0
    /\ made = [t \in Tasks |-> "none"]
    /\ OthersIdle

CreateFaults ==
    {"none", "commit_id", "symref_self", "symref_ids", "track1", "track2", "commit_refs"}
CloneFaults ==
    {"none", "adopt", "track1", "track2", "commit_refs", "fetch_commit_refs"}
FetchFaults == {"none", "fetch_commit_refs"}

DoCreateRepo ==
    /\ ops < MaxOps
    /\ \E e \in Entities, fault \in CreateFaults :
           Returns("create_repo", e.root_hash, "", CreateRepo(Store(refs, remotes), e, fault),
                   NothingServed)

\* What prefetch served passes the checks of clone_repo, so that the steps
\* after them run; only then do a fetch outcome and a later fault matter.
Adoptable(pre, id) ==
    /\ pre.ok
    /\ DecodesAsEntity(pre.blob)
    /\ pre.blob.doc.signatures # {}
    /\ pre.blob.doc.root_hash = id

DoCloneRepo ==
    /\ ops < MaxOps
    /\ \E id \in Replicated, peer \in RemotePeers, pre \in PrefetchOutcomes :
       \E fo \in IF Adoptable(pre, id) THEN FetchOutcomes ELSE {[ok |-> FALSE]},
          fault \in IF Adoptable(pre, id) THEN CloneFaults ELSE {"none"} :
           Returns("clone_repo", id, peer,
                   CloneRepo(Store(refs, remotes), Url(id, peer), pre, fo, fault), pre)

DoFetchRepo ==
    /\ ops < MaxOps
    /\ \E id \in Replicated, peer \in RemotePeers, fo \in FetchOutcomes, fault \in FetchFaults :
           Returns("fetch_repo", id, peer,
                   FetchRepo(Store(refs, remotes), Url(id, peer), fo, fault), NothingServed)

DoTrack ==
    /\ ops < MaxOps
    /\ \E id \in Ids, peer \in Peers, fails \in BOOLEAN :
           Returns("track", id, peer, Track(Store(refs, remotes), id, peer, fails),
                   NothingServed)

DoUntrack ==
    /\ ops < MaxOps
    /\ \E id \in Ids, peer \in RemotePeers :
           Returns("untrack", id, peer, Untrack(Store(refs, remotes), id, peer), NothingServed)

DoSetRadSelf ==
    /\ ops < MaxOps
    /\ \E id \in Ids, spec \in RadSelfSpecs :
       \E configured \in IF spec.kind = "Default" THEN Users \cup {""} ELSE {""},
          valid \in IF spec.kind = "Urn" THEN BOOLEAN ELSE {TRUE} :
           Returns("set_rad_self", id, "",
                   SetRadSelf(Store(refs, remotes), id, spec, configured, valid),
                   NothingServed)

DoUpdateRefs ==
    /\ ops < MaxOps
    /\ \E id \in Ids, fails \in BOOLEAN :
           Returns("update_refs", id, "", UpdateRefs(Store(refs, remotes), id, fails),
                   NothingServed)

Next ==
    \/ DoCreateRepo
    \/ DoCloneRepo
    \/ DoFetchRepo
    \/ DoTrack
    \/ DoUntrack
    \/ DoSetRadSelf
    \/ DoUpdateRefs

Spec == Init /\ [][Next]_vars

\* The operations that write rad/id and rad/self, alone: the stores that
\* create_repo's checks and set_rad_self tell apart.
InitIdentity == Init

NextIdentity ==
    \/ DoCreateRepo
    \/ DoCloneRepo
    \/ DoSetRadSelf

SpecIdentity == InitIdentity /\ [][NextIdentity]_vars

\* Creating, tracking and fetching, alone: the stores a repeated fetch
\* can start from.
InitFetch == Init

NextFetch ==
    \/ DoCreateRepo
    \/ DoTrack
    \/ DoFetchRepo

SpecFetch == InitFetch /\ [][NextFetch]_vars

(***************************************************************************)
(* Tracking on its own: track, untrack and track_signers over three peers  *)
(***************************************************************************)
\* The entities whose signers are tracked, one per identity.
SignedEntities == {LocalUser, SharedProject}

TrackPeer ==
    /\ ops < MaxOps
    /\ \E id \in Ids, peer \in TrackPeers, fails \in BOOLEAN :
           Returns("track", id, peer, Track(Store(refs, remotes), id, peer, fails),
                   NothingServed)

UntrackPeer ==
    /\ ops < MaxOps
    /\ \E id \in Ids, peer \in TrackPeers :
           Returns("untrack", id, peer, Untrack(Store(refs, remotes), id, peer),
                   NothingServed)

TrackSignersOf ==
    /\ ops < MaxOps
    /\ \E e \in SignedEntities, failAt \in 0..3 :
           Returns("track_signers", e.root_hash, "",
                   TrackSigners(Store(refs, remotes), e, failAt), NothingServed)

InitTrack == Init

NextTrack ==
    \/ TrackPeer
    \/ UntrackPeer
    \/ TrackSignersOf

SpecTrack == InitTrack /\ [][NextTrack]_vars

(***************************************************************************)
(* Two peers: the store replicated from and the store replicating          *)
(***************************************************************************)
\* The peer replicated from.  Its store `origin` is held the way that peer
\* holds it: every store knows the key of its own signer as the local one,
\* so a peer named in one store is the other peer in the other store.
OriginPeer == "p2"

Across(peer) ==
    IF peer = LocalPeer THEN OriginPeer
    ELSE IF peer = OriginPeer THEN LocalPeer
    ELSE peer

\* An identity document as the other store holds it.
AcrossEntity(e) ==
    [e EXCEPT !.signatures = {Sig(Across(s[1]), s[2]) : s \in e.signatures}]

\* The identities handed to create_repo at the origin: its user, projects
\* signed as that user or with its key, and documents its key did not sign.
OriginUser == Entity("h1", {Sig("p2", OwnedKey)}, {})

PairEntities == {OriginUser, RemoteProject, Project, LocalUser, UnsignedProject}

\* create_repo run by the origin on its own store.
OriginCreateRepo ==
    /\ \E e \in PairEntities :
           origin' = CreateRepo(origin, AcrossEntity(e), "none").st
    /\ UNCHANGED <<storeVars, last, ops, openVars, poolVars, odb, limiters, wrappers, calls>>

\* Fetcher::prefetch against the origin: its rad/id, if it has one.
OriginPrefetch(id) ==
    LET tip == BlobAtTip(origin.refs, RadId(id), "id")
    IN  IF ~tip.found THEN [ok |-> FALSE]
        ELSE [ok |-> TRUE, blob |-> EntityBlob(AcrossEntity(tip.blob.doc))]

PairCloneRepo ==
    /\ ops < MaxOps
    /\ \E id \in Ids, fo \in FetchOutcomes, fault \in CloneFaults :
           Returns("clone_repo", id, OriginPeer,
                   CloneRepo(Store(refs, remotes), Url(id, OriginPeer),
                             OriginPrefetch(id), fo, fault),
                   OriginPrefetch(id))

PairTrack ==
    /\ ops < MaxOps
    /\ \E id \in Ids :
           Returns("track", id, OriginPeer,
                   Track(Store(refs, remotes), id, OriginPeer, FALSE), NothingServed)

PairFetchRepo ==
    /\ ops < MaxOps
    /\ \E id \in Ids, fo \in FetchOutcomes :
           Returns("fetch_repo", id, OriginPeer,
                   FetchRepo(Store(refs, remotes), Url(id, OriginPeer), fo, "none"),
                   NothingServed)

InitPair == Init

NextPair ==
    \/ OriginCreateRepo
    \/ PairCloneRepo
    \/ PairTrack
    \/ PairFetchRepo

SpecPair == InitPair /\ [][NextPair]_vars

(***************************************************************************)
(* The commit graph and has_commit                                         *)
(***************************************************************************)
\* Objects by oid: 1, 2, ... in the order written; 0 is the zero oid.
TreeObject == [kind |-> "tree", parents |-> {}]
CommitObject(parents) == [kind |-> "commit", parents |-> parents]

IsCommit(db, oid) == oid \in DOMAIN db /\ db[oid].kind = "commit"

\* Reference::peel_to_commit over oids; 0 when the name does not resolve.
RECURSIVE PeelOid(_, _, _)
PeelOid(rs, name, fuel) ==
    IF name \notin DOMAIN rs \/ fuel = 0 THEN 0
    ELSE IF rs[name].kind = "direct" THEN rs[name].oid
    ELSE PeelOid(rs, rs[name].to, fuel - 1)

\* The proper ancestors of a commit.
RECURSIVE Ancestors(_, _)
Ancestors(db, oid) ==
    IF ~IsCommit(db, oid) THEN {}
    ELSE db[oid].parents \cup UNION {Ancestors(db, p) : p \in db[oid].parents}

\* backend.graph_descendant_of(commit, ancestor): false for the same commit.
GraphDescendantOf(db, commit, ancestor) == ancestor \in Ancestors(db, commit)

\* has_commit that compares the tips only.
HasCommitTipOnly(rs, db, urn, oid) ==
    /\ oid # 0
    /\ IsCommit(db, oid)
    /\ \E n \in {x \in DOMAIN rs : x = NsPrefix(urn.id) \o <<"refs">> \o UrnBranch(urn)} :
           PeelOid(rs, n, 5) = oid

\* Storage::has_commit
HasCommit(rs, db, urn, oid) ==
    IF oid = 0 THEN FALSE
    ELSE IF ~IsCommit(db, oid) THEN FALSE
    ELSE LET glob == NsPrefix(urn.id) \o <<"refs">> \o UrnBranch(urn)
             peeled == {PeelOid(rs, n, 5) : n \in {x \in DOMAIN rs : x = glob}} \ {0}
         IN  \E tip \in peeled : tip = oid \/ GraphDescendantOf(db, tip, oid)

\* The paths has_commit is asked with: none (rad/id), the signed snapshot,
\* rad/self and a branch of a tracked peer.
CommitPaths ==
    {<<>>, <<"rad", "refs">>, <<"refs", "rad", "self">>,
     <<"refs", "remotes", "p2", "heads", "master">>}

RemoteHead(id, peer) == NsPrefix(id) \o <<"refs", "remotes", peer, "heads", "master">>

\* A commit written onto `name` with the given parents: its tree, then the
\* commit, then the reference.
CommitOnto(name, parents) ==
    /\ Len(odb) + 2 <= MaxObjects
    /\ odb' = odb \o <<TreeObject, CommitObject(parents)>>
    /\ refs' = Put(refs, name, Direct(Len(odb) + 2))

\* commit_initial_meta: a parentless commit onto rad/id, refused when
\* rad/id has a tip.
CommitIdentity ==
    /\ \E id \in Ids :
           /\ RadId(id) \notin DOMAIN refs
           /\ CommitOnto(RadId(id), {})
    /\ UNCHANGED <<remotes, last, ops, openVars, poolVars, origin, limiters, wrappers, calls>>

\* update_refs: a commit onto rad/refs on top of its tip, if it has one.
CommitSignedRefs ==
    /\ \E id \in Ids :
           LET parent == PeelOid(refs, RadRefs(id), 5)
           IN  CommitOnto(RadRefs(id), IF parent = 0 THEN {} ELSE {parent})
    /\ UNCHANGED <<remotes, last, ops, openVars, poolVars, origin, limiters, wrappers, calls>>

\* Fetcher::fetch: a peer's branch moves to a commit received from it,
\* built on any commit already in the store, or on none.
FetchHead ==
    /\ \E id \in Ids, parents \in {{}} \cup {{c} : c \in {o \in DOMAIN odb : IsCommit(odb, o)}} :
           CommitOnto(RemoteHead(id, OriginPeer), parents)
    /\ UNCHANGED <<remotes, last, ops, openVars, poolVars, origin, limiters, wrappers, calls>>

\* clone_repo: rad/id becomes a direct reference to the oid at
\* remotes/<peer>/rad/id, here the commit of the peer's branch.
AdoptHead ==
    /\ \E id \in Ids :
           /\ RadId(id) \notin DOMAIN refs
           /\ RemoteHead(id, OriginPeer) \in DOMAIN refs
           /\ refs' = Put(refs, RadId(id), Direct(PeelOid(refs, RemoteHead(id, OriginPeer), 5)))
    /\ UNCHANGED <<remotes, last, ops, openVars, poolVars, otherVars>>

\* create_repo, set_rad_self: rad/self as a symbolic reference to a rad/id.
LinkRadSelf ==
    /\ \E id \in Ids :
           /\ RadId(id) \in DOMAIN refs
           /\ refs' = Put(refs, RadSelf(id), Symbolic(RadId(id)))
    /\ UNCHANGED <<remotes, last, ops, openVars, poolVars, otherVars>>

\* has_commit asked of the store as it is.
AskHasCommit ==
    /\ \E id \in Ids, path \in CommitPaths, oid \in 0..(Len(odb) + 1) :
           last' = [op |-> "has_commit", urn |-> [id |-> id, path |-> path], oid |-> oid,
                    res |-> HasCommit(refs, odb, [id |-> id, path |-> path], oid)]
    /\ UNCHANGED <<storeVars, ops, openVars, poolVars, otherVars>>

InitCommit == Init

NextCommit ==
    \/ CommitIdentity
    \/ CommitSignedRefs
    \/ FetchHead
    \/ AdoptHead
    \/ LinkRadSelf
    \/ AskHasCommit

SpecCommit == InitCommit /\ [][NextCommit]_vars

(***************************************************************************)
(* The rate-limited wrapper                                                *)
(***************************************************************************)
\* Quota::per_second(nonzero!(5u32)): a burst of 5, one token replenished
\* every fifth of a second.
QuotaPerSecond == 5

\* RateLimiter::direct(quota): the bucket starts full.
NewLimiter == [tokens |-> QuotaPerSecond, refilled |-> 0]

\* A check that lets the call pass and takes no token.
CheckTakesNothing(l) == [ok |-> l.tokens > 0, limiter |-> l]

\* limiter.check(): take a token if there is one.
Check(l) ==
    IF l.tokens > 0
    THEN [ok |-> TRUE, limiter |-> [l EXCEPT !.tokens = @ - 1]]
    ELSE [ok |-> FALSE, limiter |-> l]

\* A wrapper: the limiter it holds, the wrapper made by `from` it was cloned
\* from (itself if none), and the calls it has answered false.
Wrapper(limiter, root) == [limiter |-> limiter, root |-> root, passed |-> 0]

\* A clone with a limiter of its own.
CloneWithOwnLimiter(ls, ws, w) ==
    [limiters |-> Append(ls, NewLimiter),
     wrappers |-> Append(ws, Wrapper(Len(ls) + 1, ws[w].root))]

\* #[derive(Clone)] on Storage<S>: the Arc is cloned, the limiter shared.
CloneWrapper(ls, ws, w) ==
    [limiters |-> ls,
     wrappers |-> Append(ws, Wrapper(ws[w].limiter, ws[w].root))]

\* From<S> for Storage<S>: a wrapper with a new limiter.
WrapperFrom ==
    /\ Len(wrappers) < MaxWrappers
    /\ limiters' = Append(limiters, NewLimiter)
    /\ wrappers' = Append(wrappers, Wrapper(Len(limiters) + 1, Len(wrappers) + 1))
    /\ last' = [op |-> "from", wrapper |-> Len(wrappers) + 1, res |-> FALSE]
    /\ UNCHANGED <<storeVars, ops, openVars, poolVars, origin, odb, calls>>

WrapperClone ==
    /\ Len(wrappers) < MaxWrappers
    /\ \E w \in DOMAIN wrappers :
           LET r == CloneWrapper(limiters, wrappers, w)
           IN  /\ limiters' = r.limiters
               /\ wrappers' = r.wrappers
               /\ last' = [op |-> "clone", wrapper |-> Len(wrappers) + 1, res |-> FALSE]
    /\ UNCHANGED <<storeVars, ops, openVars, poolVars, origin, odb, calls>>

\* ErrorRateLimited::is_error_rate_limit_breached
IsErrorRateLimitBreached ==
    /\ \E w \in DOMAIN wrappers :
           LET l == wrappers[w].limiter
               r == Check(limiters[l])
           IN  /\ limiters' = [limiters EXCEPT ![l] = r.limiter]
               /\ wrappers' = [wrappers EXCEPT ![w].passed = IF r.ok THEN @ + 1 ELSE @]
               /\ last' = [op |-> "is_error_rate_limit_breached", wrapper |-> w,
                           res |-> ~r.ok]
    /\ UNCHANGED <<storeVars, ops, openVars, poolVars, origin, odb, calls>>

\* LocalStorage::put, LocalStorage::ask, Pooled::get: whatever the wrapped
\* storage answers.
PassThrough ==
    /\ \E w \in DOMAIN wrappers, call \in {"put", "ask", "get"}, inner \in {"Ok", "Err"} :
           last' = [op |-> call, wrapper |-> w, res |-> inner, inner |-> inner]
    /\ UNCHANGED <<storeVars, ops, openVars, poolVars, otherVars>>

\* A fifth of a second passes: every limiter that is not full regains a
\* token.
Replenish ==
    /\ \E l \in DOMAIN limiters : limiters[l].tokens < QuotaPerSecond
    /\ \A l \in DOMAIN limiters : limiters[l].refilled < MaxRefills
    /\ limiters' = [l \in DOMAIN limiters |->
                       IF limiters[l].tokens < QuotaPerSecond
                       THEN [tokens |-> limiters[l].tokens + 1,
                             refilled |-> limiters[l].refilled + 1]
                       ELSE limiters[l]]
    /\ last' = [op |-> "time", wrapper |-> 0, res |-> FALSE]
    /\ UNCHANGED <<storeVars, ops, openVars, poolVars, origin, odb, wrappers, calls>>

InitLimiter == Init

NextLimiter ==
    \/ WrapperFrom
    \/ WrapperClone
    \/ IsErrorRateLimitBreached
    \/ PassThrough
    \/ Replenish

SpecLimiter == InitLimiter /\ [][NextLimiter]_vars

(***************************************************************************)
(* Two handles on one store: create_repo and clone_repo step by step       *)
(***************************************************************************)
\* Each backend call of an operation is one step; between two steps of one
\* handle the other handle may take steps of its own.

\* A call in flight: the operation, the step it is about to take, the
\* identity, what it holds (the entity, or what the remote serves) and the
\* result it has or will return.
Call(op, at, id, arg, res) == [op |-> op, pc |-> at, id |-> id, arg |-> arg, res |-> res]
Returned(op, id, res) == Call(op, "done", id, <<>>, res)

\* The entities created and the documents a remote serves in a race.
RaceEntities == {LocalUser, OwnedProject}
RaceServed == {EntityBlob(LocalUser), EntityBlob(RemoteProject), EntityBlob(UnsignedProject)}
RaceFetchOutcomes ==
    {[ok |-> FALSE], [ok |-> TRUE, snapshot |-> "valid", ids |-> CertifierNames]}

\* The handle is in no call and may start one.
Free(h) == calls[h].pc \in {"idle", "done"} /\ ops < MaxOps

\* A step of handle h: it moves to `call` and leaves the store as `st`.
RaceStep(h, call, st, began) ==
    /\ calls' = [calls EXCEPT ![h] = call]
    /\ refs' = st.refs
    /\ remotes' = st.remotes
    /\ ops' = IF began THEN ops + 1 ELSE ops
    /\ UNCHANGED <<last, openVars, poolVars, origin, odb, limiters, wrappers>>

\* rad_self_target of create_repo.
RadSelfTargetOf(e) ==
    LET by == (CHOOSE s \in SignatureBy(e, LocalPeer) : TRUE)[2]
    IN  IF by = OwnedKey THEN RadId(e.root_hash) ELSE RadId(by)

\* create_repo: the checks, which only read.
CreateBegin(h) ==
    /\ Free(h)
    /\ \E e \in RaceEntities :
           LET checked == CreateChecks(Store(refs, remotes), e)
           IN  RaceStep(h, IF checked.res # "Ok"
                           THEN Returned("create_repo", e.root_hash, checked.res)
                           ELSE Call("create_repo", "commit", e.root_hash, e, ""),
                        Store(refs, remotes), TRUE)

\* create_repo: commit_initial_meta
CreateCommit(h) ==
    /\ calls[h].op = "create_repo" /\ calls[h].pc = "commit"
    /\ LET c == calls[h]
           r == CommitInitialMeta(Store(refs, remotes), c.arg, FALSE)
       IN  RaceStep(h, IF r.res # "Ok" THEN Returned(c.op, c.id, r.res)
                       ELSE Call(c.op, "symref_self", c.id, c.arg, ""),
                    r.st, FALSE)

\* create_repo going on to track_signers without its symbolic references.
CreateSymrefSelfSkipped(h) ==
    /\ calls[h].op = "create_repo" /\ calls[h].pc = "symref_self"
    /\ LET c == calls[h]
       IN  RaceStep(h, Call(c.op, "finish", c.id, c.arg, ""), Store(refs, remotes), FALSE)

\* create_repo: the symbolic reference rad/self, which the backend may
\* refuse.
CreateSymrefSelf(h) ==
    /\ calls[h].op = "create_repo" /\ calls[h].pc = "symref_self"
    /\ \E fails \in BOOLEAN :
           LET c == calls[h]
               linked == Store(Put(refs, RadSelf(c.id), Symbolic(RadSelfTargetOf(c.arg))),
                               remotes)
           IN  IF fails
               THEN RaceStep(h, Call(c.op, "rollback", c.id, c.arg, "Git"),
                             Store(refs, remotes), FALSE)
               ELSE RaceStep(h, Call(c.op, IF c.arg.certifiers = {} THEN "finish"
                                            ELSE "symref_ids", c.id, c.arg, ""),
                             linked, FALSE)

\* create_repo: the symbolic references rad/ids/<certifier>.
CreateSymrefIds(h) ==
    /\ calls[h].op = "create_repo" /\ calls[h].pc = "symref_ids"
    /\ \E fails \in BOOLEAN :
           LET c == calls[h]
               r == CreateSymrefs(Store(refs, remotes), c.arg, RadSelfTargetOf(c.arg),
                                  IF fails THEN "symref_ids" ELSE "none")
           IN  RaceStep(h, Call(c.op, IF r.res # "Ok" THEN "rollback" ELSE "finish",
                                c.id, c.arg, IF r.res # "Ok" THEN r.res ELSE ""),
                        r.st, FALSE)

\* create_repo: delete_repo after a symbolic reference failed.
CreateRollback(h) ==
    /\ calls[h].op = "create_repo" /\ calls[h].pc = "rollback"
    /\ LET c == calls[h]
       IN  RaceStep(h, Returned(c.op, c.id, c.res),
                    DeleteRepo(Store(refs, remotes), c.id), FALSE)

\* create_repo: track_signers and update_refs, then the return.
CreateFinish(h) ==
    /\ calls[h].op = "create_repo" /\ calls[h].pc = "finish"
    /\ LET c == calls[h]
           tracked == TrackSigners(Store(refs, remotes), c.arg, 0)
           updated == UpdateRefs(tracked.st, c.id, FALSE)
           r == Then(tracked, updated)
       IN  RaceStep(h, Returned(c.op, c.id, r.res), r.st, FALSE)

\* clone_repo: the has_urn check.
CloneBegin(h) ==
    /\ Free(h)
    /\ \E id \in Ids, served \in RaceServed :
           RaceStep(h, IF HasUrn(Store(refs, remotes), Urn(id))
                       THEN Returned("clone_repo", id, "AlreadyExists")
                       ELSE Call("clone_repo", "prefetch", id, served, ""),
                    Store(refs, remotes), TRUE)

\* clone_repo: Fetcher::new and prefetch.
ClonePrefetch(h) ==
    /\ calls[h].op = "clone_repo" /\ calls[h].pc = "prefetch"
    /\ \E ok \in BOOLEAN :
           LET c == calls[h]
               r == Prefetch(Store(refs, remotes), c.id, OriginPeer,
                             IF ok THEN [ok |-> TRUE, blob |-> c.arg] ELSE [ok |-> FALSE])
           IN  RaceStep(h, IF r.res # "Ok" THEN Returned(c.op, c.id, r.res)
                           ELSE Call(c.op, "validate", c.id, c.arg, ""),
                        r.st, FALSE)

\* clone_repo: some_metadata_of the remote's rad/id and the validity check.
CloneValidate(h) ==
    /\ calls[h].op = "clone_repo" /\ calls[h].pc = "validate"
    /\ LET c == calls[h]
           read == MetadataFromReference(Store(refs, remotes), RemoteRadId(c.id, OriginPeer))
           invalid == IF read.meta.signatures = {} THEN "UnsignedMetadata"
                      ELSE IF read.meta.root_hash # c.id THEN "RootHashMismatch"
                      ELSE "Ok"
       IN  RaceStep(h, IF read.res # "Ok" THEN Returned(c.op, c.id, read.res)
                       ELSE IF invalid # "Ok" THEN Call(c.op, "delete", c.id, <<>>, invalid)
                       ELSE Call(c.op, "adopt", c.id, read.meta, ""),
                    Store(refs, remotes), FALSE)

\* clone_repo: delete_repo for metadata that is not valid.
CloneDelete(h) ==
    /\ calls[h].op = "clone_repo" /\ calls[h].pc = "delete"
    /\ LET c == calls[h]
       IN  RaceStep(h, Returned(c.op, c.id, c.res),
                    DeleteRepo(Store(refs, remotes), c.id), FALSE)

\* clone_repo: rad/id created, without force, at the head of the remote's.
CloneAdopt(h) ==
    /\ calls[h].op = "clone_repo" /\ calls[h].pc = "adopt"
    /\ LET c == calls[h]
           remote_id == RemoteRadId(c.id, OriginPeer)
           adopted == Store(Put(refs, RadId(c.id), Direct(Peel(refs, remote_id, 5))), remotes)
       IN  IF remote_id \notin DOMAIN refs \/ RadId(c.id) \in DOMAIN refs
           THEN RaceStep(h, Returned(c.op, c.id, "Git"), Store(refs, remotes), FALSE)
           ELSE RaceStep(h, Call(c.op, "finish", c.id, c.arg, ""), adopted, FALSE)

\* clone_repo: track_signers, update_refs and fetch_internal, then the
\* return.
CloneFinish(h) ==
    /\ calls[h].op = "clone_repo" /\ calls[h].pc = "finish"
    /\ \E fo \in RaceFetchOutcomes :
           LET c == calls[h]
               tracked == TrackSigners(Store(refs, remotes), c.arg, 0)
               updated == UpdateRefs(tracked.st, c.id, FALSE)
               fetched == FetchInternal(updated.st, c.id, OriginPeer, fo, "none")
               r == Then(tracked, Then(updated, fetched))
           IN  RaceStep(h, Returned(c.op, c.id, r.res), r.st, FALSE)

\* A reader: has_urn, and has_ref of rad/self and of the rad/ids links.
Observe(h) ==
    /\ Free(h)
    /\ \E id \in Ids :
           RaceStep(h, Returned("observe", id,
                                <<HasUrn(Store(refs, remotes), Urn(id)),
                                  HasRef(Store(refs, remotes), RadSelf(id)),
                                  \E c \in Ids :
                                      HasRef(Store(refs, remotes), RadCertifier(id, c))>>),
                    Store(refs, remotes), TRUE)

CreateSteps(h) ==
    \/ CreateBegin(h)
    \/ CreateCommit(h)
    \/ CreateSymrefSelf(h)
    \/ CreateSymrefIds(h)
    \/ CreateRollback(h)
    \/ CreateFinish(h)

CloneSteps(h) ==
    \/ CloneBegin(h)
    \/ ClonePrefetch(h)
    \/ CloneValidate(h)
    \/ CloneDelete(h)
    \/ CloneAdopt(h)
    \/ CloneFinish(h)

\* Creating and cloning on two handles.
InitRace == Init

NextRace == \E h \in RaceHandles : CreateSteps(h) \/ CloneSteps(h)

SpecRace == InitRace /\ [][NextRace]_vars

\* Creating on two handles, with readers.
InitObserve == Init

NextObserve == \E h \in RaceHandles : CreateSteps(h) \/ Observe(h)

SpecObserve == InitObserve /\ [][NextObserve]_vars

(***************************************************************************)
(* Opening and initialising the store                                      *)
(***************************************************************************)
Built(res, d, hs) == [res |-> res, disk |-> d, handles |-> hs]

\* Storage::open: the backend must exist and its config hold a peer id.
Open(d) ==
    IF d.state = "absent" THEN Built("GitNotFound", d, <<>>)
    ELSE IF d.state = "bare" THEN Built("Config", d, <<>>)
    ELSE Built("Ok", d, <<Handle(d.peer_id, NoSigner)>>)

\* with_signer without the comparison of the peer ids.
WithSignerUnchecked(d, h, signer) == Built("Ok", d, <<Handle(h.peer_id, signer)>>)

\* Storage::with_signer
WithSigner(d, h, signer) ==
    IF h.peer_id # PeerIdOfSigner(signer) THEN Built("SignerKeyMismatch", d, <<>>)
    ELSE Built("Ok", d, <<Handle(h.peer_id, signer)>>)

\* Storage::init: the backend refuses to reinitialise; writing the config
\* may fail after the bare repository was created.
StorageInit(d, signer, configFails) ==
    IF d.state # "absent" THEN Built("GitExists", d, <<>>)
    ELSE IF configFails THEN Built("Config", Bare, <<>>)
    ELSE Built("Ok", Ready(PeerIdOfSigner(signer)),
               <<Handle(PeerIdOfSigner(signer), signer)>>)

\* open_or_init falling back to init on any error of open.
OpenOrInitOnAnyError(d, signer, configFails) ==
    LET this == Open(d)
    IN  IF this.res = "Ok"
        THEN IF this.handles[1].peer_id # PeerIdOfSigner(signer)
             THEN Built("SignerKeyMismatch", d, <<>>)
             ELSE WithSigner(d, this.handles[1], signer)
        ELSE StorageInit(d, signer, configFails)

\* Storage::open_or_init
OpenOrInit(d, signer, configFails) ==
    LET this == Open(d)
    IN  IF this.res = "Ok"
        THEN IF this.handles[1].peer_id # PeerIdOfSigner(signer)
             THEN Built("SignerKeyMismatch", d, <<>>)
             ELSE WithSigner(d, this.handles[1], signer)
        ELSE IF this.res = "GitNotFound" THEN StorageInit(d, signer, configFails)
        ELSE this

\* TryToOwned for Storage (reopen)
TryToOwned(h) == Handle(h.peer_id, h.signer)

\* Storage::downcast
Downcast(h) == Handle(h.peer_id, NoSigner)

\* No pool task is running Manager::create.
PoolIdle == init_lock = 0 /\ \A t \in Tasks : pc[t] = "idle"

RemoveAt(seq, i) == SubSeq(seq, 1, i - 1) \o SubSeq(seq, i + 1, Len(seq))

\* A construction call returns b; `kept` are the handles that stay alive.
Constructed(op, signer, b, kept) ==
    /\ Len(kept \o b.handles) <= MaxHandles
    /\ disk' = b.disk
    /\ handles' = kept \o b.handles
    /\ last' = [op |-> op, signer |-> signer, res |-> b.res,
                stored |-> disk, yielded |-> b.handles]
    /\ UNCHANGED <<otherVars, storeVars, ops, poolVars>>

DoInit ==
    /\ PoolIdle
    /\ \E signer \in Keys, configFails \in BOOLEAN :
           Constructed("init", signer, StorageInit(disk, signer, configFails), handles)

DoOpen ==
    /\ PoolIdle
    /\ Constructed("open", NoSigner, Open(disk), handles)

DoWithSigner ==
    /\ PoolIdle
    /\ \E i \in DOMAIN handles, signer \in Keys :
           /\ handles[i].signer = NoSigner
           /\ Constructed("with_signer", signer, WithSigner(disk, handles[i], signer),
                          RemoveAt(handles, i))

DoOpenOrInit ==
    /\ PoolIdle
    /\ \E signer \in Keys, configFails \in BOOLEAN :
           Constructed("open_or_init", signer, OpenOrInit(disk, signer, configFails),
                       handles)

DoReopen ==
    /\ PoolIdle
    /\ \E i \in DOMAIN handles :
           Constructed("reopen", handles[i].signer,
                       Built("Ok", disk, <<TryToOwned(handles[i])>>), handles)

DoDowncast ==
    /\ PoolIdle
    /\ \E i \in DOMAIN handles :
           /\ handles[i].signer # NoSigner
           /\ Constructed("downcast", handles[i].signer,
                          Built("Ok", disk, <<Downcast(handles[i])>>),
                          RemoveAt(handles, i))

\* A handle goes out of scope.
DoDrop ==
    /\ PoolIdle
    /\ \E i \in DOMAIN handles :
           Constructed("drop", handles[i].signer, Built("Ok", disk, <<>>),
                       RemoveAt(handles, i))

InitOpen ==
    /\ refs = <<>>
    /\ remotes = {}
    /\ ops = 0
    /\ last = [op |-> "none", signer |-> NoSigner, res |-> "Ok",
               stored |-> Absent, yielded |-> <<>>]
    /\ disk = Absent
    /\ handles = <<>>
    /\ pc = [t \in Tasks |-> "idle"]
    /\ init_lock = 0
    /\ made = [t \in Tasks |-> "none"]
    /\ OthersIdle

NextOpen ==
    \/ DoInit
    \/ DoOpen
    \/ DoWithSigner
    \/ DoOpenOrInit
    \/ DoReopen
    \/ DoDowncast
    \/ DoDrop

SpecOpen == InitOpen /\ [][NextOpen]_vars

(***************************************************************************)
(* The storage pool: Manager::create on one Config and its clones          *)
(***************************************************************************)
\* create without taking the lock.
InitLockIgnored == TRUE

\* Config::init_lock is free.
InitLockFree == init_lock = 0

\* The steps of a task between taking and releasing init_lock.
Constructing == {"open", "init", "config", "return"}

Step(t, to) == pc' = [pc EXCEPT ![t] = to]
Make(t, what) == made' = [made EXCEPT ![t] = what]

\* A task calls create and blocks on init_lock.
PoolCreate(t) ==
    /\ pc[t] = "idle"
    /\ Step(t, "waiting")
    /\ UNCHANGED <<otherVars, storeVars, last, ops, openVars, init_lock, made>>

\* let _lock = self.init_lock.lock().unwrap()
PoolLock(t) ==
    /\ pc[t] = "waiting"
    /\ InitLockFree
    /\ init_lock' = t
    /\ Step(t, "open")
    /\ UNCHANGED <<otherVars, storeVars, last, ops, openVars, made>>

\* open_or_init, first half: Storage::open and the upgrade to a signer.
PoolOpen(t) ==
    /\ pc[t] = "open"
    /\ LET this == Open(disk)
           signed == WithSigner(disk, this.handles[1], LocalKey)
       IN  \/ /\ this.res = "Ok"
              /\ Make(t, IF signed.res = "Ok" THEN "opened" ELSE signed.res)
              /\ Step(t, "return")
           \/ /\ this.res = "GitNotFound"
              /\ Step(t, "init")
              /\ UNCHANGED made
           \/ /\ this.res \notin {"Ok", "GitNotFound"}
              /\ Make(t, this.res)
              /\ Step(t, "return")
    /\ UNCHANGED <<otherVars, storeVars, last, ops, openVars, init_lock>>

\* Storage::init, first half: create the bare repository (no_reinit).
PoolInitRepo(t) ==
    /\ pc[t] = "init"
    /\ \/ /\ disk.state = "absent"
          /\ disk' = Bare
          /\ Step(t, "config")
          /\ UNCHANGED made
       \/ /\ disk.state # "absent"
          /\ Make(t, "GitExists")
          /\ Step(t, "return")
          /\ UNCHANGED disk
    /\ UNCHANGED <<otherVars, storeVars, last, ops, handles, init_lock>>

\* Storage::init, second half: Config::init writes the peer id.
PoolInitConfig(t) ==
    /\ pc[t] = "config"
    /\ disk' = Ready(PeerIdOfSigner(LocalKey))
    /\ Make(t, "initialised")
    /\ Step(t, "return")
    /\ UNCHANGED <<otherVars, storeVars, last, ops, handles, init_lock>>

\* create returns: the guard is dropped and the lock released.
PoolReturn(t) ==
    /\ pc[t] = "return"
    /\ init_lock' = IF init_lock = t THEN 0 ELSE init_lock
    /\ Step(t, "done")
    /\ UNCHANGED <<otherVars, storeVars, last, ops, openVars, made>>

InitPool ==
    /\ refs = <<>>
    /\ remotes = {}
    /\ ops = 0
    /\ last = FirstOutcome
    /\ disk = Absent
    /\ handles = <<>>
    /\ pc = [t \in Tasks |-> "idle"]
    /\ init_lock = 0
    /\ made = [t \in Tasks |-> "none"]
    /\ OthersIdle

NextPool ==
    \E t \in Tasks :
        \/ PoolCreate(t)
        \/ PoolLock(t)
        \/ PoolOpen(t)
        \/ PoolInitRepo(t)
        \/ PoolInitConfig(t)
        \/ PoolReturn(t)

SpecPool == InitPool /\ [][NextPool]_vars

(***************************************************************************)
(* Properties of the storage operations                                    *)
(***************************************************************************)
Now == Store(refs, remotes)
RadRefsDepth(rs, id) == Peel(rs, RadRefs(id), 5).depth

\* C1: when create_repo fails after it committed the identity on rad/id
\* (the symbolic references, track_signers or update_refs failed), no
\* reference is left in the identity's namespace and has_urn is false.
C1_FailedCreateLeavesNothing ==
    (last.op = "create_repo" /\ last.res # "Ok" /\ "symref" \in last.steps)
        => /\ NamespaceRefs(refs, last.id) = {}
           /\ ~HasUrn(Now, Urn(last.id))

\* C2: when the prefetched metadata is unsigned or carries another root
\* hash than the URL, clone_repo returns UnsignedMetadata, respectively
\* RootHashMismatch{expected: url.urn.id, actual: root_hash}, never creates
\* the local rad/id, and returns with the namespace empty.
C2_InvalidCloneIsPurged ==
    (/\ last.op = "clone_repo"
     /\ last.served.ok
     /\ DecodesAsEntity(last.served.blob)
     /\ \/ last.served.blob.doc.signatures = {}
        \/ last.served.blob.doc.root_hash # last.id)
        => /\ last.res = IF last.served.blob.doc.signatures = {}
                         THEN "UnsignedMetadata" ELSE "RootHashMismatch"
           /\ last.res = "RootHashMismatch"
                => last.detail = <<last.id, last.served.blob.doc.root_hash>>
           /\ "adopt" \notin last.steps
           /\ RadId(last.id) \notin DOMAIN refs
           /\ NamespaceRefs(refs, last.id) = {}

C2_Witness ==
    /\ last.op = "clone_repo"
    /\ last.res = "RootHashMismatch"
    /\ last.served.ok
    /\ last.served.blob = EntityBlob(LocalUser)
    /\ "delete_repo" \in last.steps

\* C3: when clone_repo fails after a successful prefetch in any step other
\* than the signature and root-hash verification, the namespace is purged:
\* has_urn is false and no reference remains in it.
C3_FailedCloneIsPurged ==
    (/\ last.op = "clone_repo"
     /\ last.served.ok
     /\ last.res \notin {"Ok", "UnsignedMetadata", "RootHashMismatch"})
        => /\ NamespaceRefs(refs, last.id) = {}
           /\ ~HasUrn(Now, Urn(last.id))

\* C4 as claimed: right after update_refs(u) succeeds, rad_refs_of(u,
\* self.peer_id) succeeds and returns a value equal to rad_refs(u).
C4_RadRefsOfSelfRoundTrip ==
    (last.op = "update_refs" /\ last.res = "Ok")
        => /\ RadRefsOf(Now, last.id, LocalPeer).res = "Ok"
           /\ RadRefsOf(Now, last.id, LocalPeer).refs = RadRefsNow(Now, last.id).refs

\* C4 as amended: right after update_refs(u) succeeds (alone or as the last
\* step of create_repo, clone_repo or fetch_repo), the blob `refs` at the
\* tip of the local rad/refs verifies against the local peer's key and
\* decodes to a value equal to rad_refs(u).
C4_LocalSnapshotRoundTrip ==
    (last.op \in {"update_refs", "create_repo", "clone_repo", "fetch_repo"}
     /\ last.res = "Ok")
        => LET tip == BlobAtTip(refs, RadRefs(last.id), "refs")
           IN  /\ tip.found
               /\ VerifiedRefs(tip.blob, LocalPeer).ok
               /\ RadRefsNow(Now, last.id).res = "Ok"
               /\ VerifiedRefs(tip.blob, LocalPeer).refs = RadRefsNow(Now, last.id).refs

C4_Witness ==
    /\ last.op = "update_refs"
    /\ last.res = "Ok"
    /\ "commit_refs" \in last.steps
    /\ RadRefsDepth(refs, last.id) = 2
    /\ RadRefsNow(Now, last.id).refs.remotes # {}

\* C5: update_refs reaches a fixed point.  One run adds at most one commit
\* to rad/refs; a run that directly follows a successful run for the same
\* identity adds none; and no run adds a commit when the tree it computes
\* is the tree of the current rad/refs tip.
C5_UpdateRefsFixedPoint ==
    [][last'.op = "update_refs" =>
        LET id == last'.id
            tip == Peel(refs, RadRefs(id), 5)
            fresh == RadRefsNow(Now, id)
        IN  /\ RadRefsDepth(refs', id) <= RadRefsDepth(refs, id) + 1
            /\ (last.op = "update_refs" /\ last.id = id /\ last.res = "Ok"
                /\ last'.res = "Ok") => refs' = refs
            /\ (fresh.res = "Ok" /\ tip # NoCommit
                /\ tip.tree = SignedRefsBlob(fresh.refs, LocalPeer)) => refs' = refs
            /\ \A n \in (DOMAIN refs \cup DOMAIN refs') \ {RadRefs(id)} :
                   n \in DOMAIN refs /\ n \in DOMAIN refs' /\ refs'[n] = refs[n]
    ]_vars

C5_Witness ==
    /\ last.op = "update_refs"
    /\ last.res = "Ok"
    /\ "commit_refs" \notin last.steps
    /\ RadRefsDepth(refs, last.id) = 2

\* C8: create_repo(e) on a store that already holds e.urn() returns
\* AlreadyExists(e.urn()) and leaves every reference unchanged.
C8_CreateExistingIsAlreadyExists ==
    [][(last'.op = "create_repo" /\ last'.existed /\ "commit_id" \in last'.steps)
        => /\ last'.res = "AlreadyExists"
           /\ refs' = refs
    ]_vars

\* C9: clone_repo(url) on a store where has_urn(url.urn) holds returns
\* AlreadyExists(urn) before a fetcher is built or prefetch runs, and
\* changes no reference and no remote.
C9_CloneExistingIsAlreadyExists ==
    [][(last'.op = "clone_repo" /\ last'.existed)
        => /\ last'.res = "AlreadyExists"
           /\ last'.detail = <<last'.id>>
           /\ last'.steps = {}
           /\ refs' = refs
           /\ remotes' = remotes
    ]_vars

C9_Witness ==
    /\ last.op = "clone_repo"
    /\ last.res = "AlreadyExists"
    /\ last.existed
    /\ NamespaceRefs(refs, last.id) # {}

\* C10: fetch_repo(url) for an identity that does not exist locally fails
\* before the fetcher's fetch is invoked and creates no reference in the
\* identity's namespace, in particular no rad/refs commit.
C10_FetchMissingFails ==
    [][(last'.op = "fetch_repo" /\ ~last'.existed)
        => /\ last'.res # "Ok"
           /\ "fetch" \notin last'.steps
           /\ NamespaceRefs(refs', last'.id) \subseteq NamespaceRefs(refs, last'.id)
    ]_vars

\* C11 as claimed: for every URN, whatever its path, has_urn holds exactly
\* when the identity's rad/id exists.
C11_HasUrnIffRadId ==
    \A id \in Ids, path \in UrnPaths :
        HasUrn(Now, [id |-> id, path |-> path]) <=> RadId(id) \in DOMAIN refs

\* The paths that name the identity branch.
IdentityPaths == {<<>>, <<"refs", "rad", "id">>, <<"rad", "id">>}

\* The reference a URN of each path stands for.
NamedBy(id, path) ==
    CASE path \in IdentityPaths -> RadId(id)
      [] path = <<"rad", "refs">> -> RadRefs(id)
      [] path = <<"refs", "heads", "master">> -> NsPrefix(id) \o <<"refs", "heads", "master">>
      [] path = <<"refs">> -> NsPrefix(id) \o <<"refs", "refs">>

\* C11 as amended: for a URN whose path is empty or names rad/id, has_urn
\* holds exactly when the identity's rad/id exists; for any other path it
\* holds exactly when the reference refs/namespaces/<id>/refs/<path>, the
\* path taken without a leading refs/, exists, whether rad/id does or not.
C11_HasUrnFollowsPath ==
    \A id \in Ids, path \in UrnPaths :
        HasUrn(Now, [id |-> id, path |-> path]) <=> NamedBy(id, path) \in DOMAIN refs

C11_Witness ==
    \E id \in Ids :
        /\ RadId(id) \in DOMAIN refs
        /\ RadRefs(id) \in DOMAIN refs
        /\ HasUrn(Now, Urn(id))
        /\ HasUrn(Now, [id |-> id, path |-> <<"rad", "refs">>])
        /\ ~HasUrn(Now, [id |-> id, path |-> <<"refs", "heads", "master">>])
        /\ \E other \in Ids : ~HasUrn(Now, Urn(other))

\* C12: every identity whose local rad/id exists has it point at a commit
\* whose tree has the single entry `id`, and metadata decodes that blob to
\* an entity whose root_hash is the identity's id.
C12_RadIdHoldsTheIdentity ==
    \A id \in Ids :
        RadId(id) \in DOMAIN refs =>
            /\ refs[RadId(id)].kind = "direct"
            /\ TreeEntries(Peel(refs, RadId(id), 5).tree) = {"id"}
            /\ Metadata(Now, Urn(id)).res = "Ok"
            /\ Metadata(Now, Urn(id)).meta.root_hash = id

\* C13: once create_repo or clone_repo has returned success for an
\* identity, every certifier listed on its metadata has a symbolic
\* reference rad/ids/<certifier> to the certifier's rad/id, and that rad/id
\* exists locally.
C13_CertifiersAreLinked ==
    (last.op \in {"create_repo", "clone_repo"} /\ last.res = "Ok")
        => LET m == Metadata(Now, Urn(last.id))
           IN  /\ m.res = "Ok"
               /\ \A c \in m.meta.certifiers :
                      /\ RadCertifier(last.id, c) \in DOMAIN refs
                      /\ refs[RadCertifier(last.id, c)] = Symbolic(RadId(c))
                      /\ RadId(c) \in DOMAIN refs

\* rad_self_target of an entity: the identity's own rad/id when the local
\* key signed it as OwnedKey, the rad/id of V when it signed as User(V);
\* none when the local key did not sign.
RadSelfTarget(e) ==
    LET self_sig == SignatureBy(e, LocalPeer)
        by == (CHOOSE s \in self_sig : TRUE)[2]
    IN  IF self_sig = {} THEN <<>>
        ELSE IF by = OwnedKey THEN RadId(e.root_hash) ELSE RadId(by)

\* C14 as claimed: in every reachable state, for every local identity and
\* every signature on it whose `by` is User(V), either rad_id equals
\* rad_self_target or rad/self is a symbolic reference to V's rad/id.
C14_RadSelfFollowsSigner ==
    \A id \in Ids :
        LET m == Metadata(Now, Urn(id))
        IN  (RadId(id) \in DOMAIN refs /\ m.res = "Ok") =>
                \A s \in m.meta.signatures :
                    s[2] # OwnedKey =>
                        \/ RadSelfTarget(m.meta) = RadId(id)
                        \/ /\ RadSelf(id) \in DOMAIN refs
                           /\ refs[RadSelf(id)] = Symbolic(RadId(s[2]))

\* C14 as amended: when create_repo returns success, rad/self of the new
\* identity is a symbolic reference to rad_self_target (the identity's own
\* rad/id for a local OwnedKey signature, V's rad/id for User(V)) and the
\* target exists; clone_repo and fetch_repo never create or repoint a
\* rad/self; set_rad_self(None) leaves the identity without rad/self.
C14_CreateLinksRadSelf ==
    [][/\ (last'.op = "create_repo" /\ last'.res = "Ok") =>
            LET m == Metadata(Store(refs', remotes'), Urn(last'.id))
            IN  /\ m.res = "Ok"
                /\ RadSelf(last'.id) \in DOMAIN refs'
                /\ refs'[RadSelf(last'.id)] = Symbolic(RadSelfTarget(m.meta))
                /\ RadSelfTarget(m.meta) \in DOMAIN refs'
       /\ last'.op \in {"clone_repo", "fetch_repo"} =>
            \A id \in Ids :
                RadSelf(id) \in DOMAIN refs' =>
                    RadSelf(id) \in DOMAIN refs /\ refs'[RadSelf(id)] = refs[RadSelf(id)]
       /\ (last'.op = "set_rad_self" /\ last'.res = "Ok" /\ "symref" \notin last'.steps) =>
            RadSelf(last'.id) \notin DOMAIN refs'
    ]_vars

C14_Witness ==
    /\ last.op = "create_repo"
    /\ last.res = "Ok"
    /\ Metadata(Now, Urn(last.id)).meta = Project
    /\ refs[RadSelf(last.id)] = Symbolic(RadId("h1"))

\* C15: every reference an operation creates, updates or deletes has a
\* name under refs/namespaces/<id>/, <id> being the identity the operation
\* was called for; references outside that namespace are left as they were.
C15_WritesStayInNamespace ==
    [][\A n \in DOMAIN refs \cup DOMAIN refs' :
          (n \notin DOMAIN refs \/ n \notin DOMAIN refs' \/ refs'[n] # refs[n])
              => InNamespace(n, last'.id)
    ]_vars

C15_Witness ==
    /\ last.op = "clone_repo"
    /\ "delete_repo" \in last.steps
    /\ NamespaceRefs(refs, last.id) = {}
    /\ \E other \in Ids \ {last.id} :
           /\ RadId(other) \in DOMAIN refs
           /\ RadSelf(other) \in DOMAIN refs
           /\ RadRefs(other) \in DOMAIN refs

\* C18: track(u, p) with p the handle's own peer id returns
\* SelfReferential and changes nothing; track_signers skips the local
\* key's signature, so create_repo never fails with SelfReferential; and
\* after any sequence of operations the local peer is not in tracked(u)
\* for any u.
C18_NeverTracksItself ==
    [][/\ (last'.op = "track" /\ last'.peer = LocalPeer)
            => /\ last'.res = "SelfReferential"
               /\ remotes' = remotes
               /\ refs' = refs
       /\ last'.op \in {"create_repo", "clone_repo"} => last'.res # "SelfReferential"
       /\ \A id \in Ids : LocalPeer \notin Tracked(Store(refs', remotes'), id)
    ]_vars

C18_Witness ==
    /\ last.op = "create_repo"
    /\ last.res = "Ok"
    /\ Metadata(Now, Urn(last.id)).meta = Project
    /\ Tracked(Now, last.id) = {"p2"}

\* C19: rad_refs(u).remotes has at most three levels, whatever the depth
\* of the snapshots the tracked peers published: the tracked peers, and
\* below each the first two levels of the remotes in its verified
\* snapshot, nothing deeper.
C19_RemotesAreCutOff ==
    \A id \in Ids :
        LET rr == RadRefsNow(Now, id)
        IN  rr.res = "Ok" =>
              /\ RemotesDepth(rr.refs.remotes) <= 3
              /\ \A path \in rr.refs.remotes :
                     /\ path[1] \in Tracked(Now, id)
                     /\ Len(path) > 1 =>
                            /\ RadRefsOf(Now, id, path[1]).res = "Ok"
                            /\ Tail(path) \in RadRefsOf(Now, id, path[1]).refs.remotes
              /\ \A p \in Tracked(Now, id) :
                     /\ <<p>> \in rr.refs.remotes
                     /\ RadRefsOf(Now, id, p).res = "Ok" =>
                            \A q \in RadRefsOf(Now, id, p).refs.remotes :
                                Len(q) <= 2 => <<p>> \o q \in rr.refs.remotes

C19_Witness ==
    \E id \in Ids :
        /\ RadRefsNow(Now, id).res = "Ok"
        /\ RemotesDepth(RadRefsNow(Now, id).refs.remotes) = 3
        /\ \E p \in Tracked(Now, id) :
               /\ RadRefsOf(Now, id, p).res = "Ok"
               /\ RemotesDepth(RadRefsOf(Now, id, p).refs.remotes) > 3

\* The preconditions of create_repo: the local key signed the entity, its
\* rad_self_target resolves, and every certifier exists locally.
CreatePreconditions(st, e) ==
    /\ SignatureBy(e, LocalPeer) # {}
    /\ RadSelfTarget(e) = RadId(e.root_hash) \/ HasRef(st, RadSelfTarget(e))
    /\ \A c \in e.certifiers : HasUrn(st, Urn(c))

\* C20: on every reachable store that does not contain e, create_repo(e)
\* for an entity signed by the local key whose preconditions hold succeeds
\* (no backend call failing), and afterwards has_urn(e.urn()) is true,
\* metadata(e.urn()) is e, rad/refs exists and rad_refs(e.urn()).heads is
\* empty.
C20_CreateSucceeds ==
    \A e \in Entities :
        (CreatePreconditions(Now, e) /\ ~HasUrn(Now, Urn(e.root_hash))) =>
            LET r == CreateRepo(Now, e, "none")
                urn == Urn(e.root_hash)
            IN  /\ r.res = "Ok"
                /\ HasUrn(r.st, urn)
                /\ Metadata(r.st, urn) = [res |-> "Ok", meta |-> e]
                /\ RadRefs(e.root_hash) \in DOMAIN r.st.refs
                /\ RadRefsNow(r.st, e.root_hash).res = "Ok"
                /\ RadRefsNow(r.st, e.root_hash).refs.heads = {}

RadSelfEnvs == (Users \cup {""}) \X BOOLEAN

\* What rad/self of `id` is in a store: its target, or <<>> when absent.
RadSelfOf(st, id) ==
    IF RadSelf(id) \in DOMAIN st.refs THEN st.refs[RadSelf(id)] ELSE <<>>

\* C27: on every reachable store, whatever rad/self is, set_rad_self(urn,
\* None) succeeds and leaves no rad/self; set_rad_self(urn, Default) and
\* set_rad_self(urn, Urn(v)) succeed when the configured default,
\* respectively v, is a valid local User, and then rad/self is a symbolic
\* reference to that identity's rad/id; a call that fails leaves the store
\* as it was; no call touches another reference or a remote; and after a
\* successful call, a second call succeeds or fails as it would alone,
\* sets what it would set alone, and leaves the first call's rad/self if
\* it fails.
C27_SetRadSelfLastWriteWins ==
    LET known == {v \in Users : Metadata(Now, Urn(v)).res = "Ok"}
    IN
    \A id \in Ids, env \in RadSelfEnvs :
        LET configured == env[1]
            valid == env[2]
            named(s) == IF s.kind = "Default" THEN configured ELSE s.urn.id
            succeeds(s) == \/ s.kind = "None"
                           \/ /\ named(s) \in known
                              /\ s.kind = "Urn" => valid
            sets(s) == IF s.kind = "None" THEN <<>> ELSE Symbolic(RadId(named(s)))
        IN  \A spec \in RadSelfSpecs :
            \A r \in {SetRadSelf(Now, id, spec, configured, valid)} :
                /\ r.st.remotes = remotes
                /\ Drop(r.st.refs, {RadSelf(id)}) = Drop(refs, {RadSelf(id)})
                /\ (r.res = "Ok") = succeeds(spec)
                /\ r.res = "Ok" => RadSelfOf(r.st, id) = sets(spec)
                /\ r.res # "Ok" => r.st = Now
                /\ r.res = "Ok" => \A next \in RadSelfSpecs :
                       \A second \in {SetRadSelf(r.st, id, next, configured, valid)} :
                           /\ (second.res = "Ok") = succeeds(next)
                           /\ RadSelfOf(second.st, id) =
                                  IF second.res = "Ok" THEN sets(next) ELSE sets(spec)

\* set_rad_self has pointed the rad/self of a project, which create_repo
\* had linked to the project's own rad/id, at the user h1.
C27_Witness ==
    /\ last.op = "set_rad_self"
    /\ last.res = "Ok"
    /\ last.id = "h2"
    /\ "symref" \in last.steps
    /\ Metadata(Now, Urn("h2")) = [res |-> "Ok", meta |-> OwnedProject]
    /\ RadSelfOf(Now, "h2") = Symbolic(RadId("h1"))

(***************************************************************************)
(* Properties of tracking                                                  *)
(***************************************************************************)
\* C16: when untrack(u, p) succeeds -- in particular right after a
\* successful track(u, p) -- p is not in tracked(u), and every other peer
\* tracked for u, and every peer tracked for another identity, still is.
C16_UntrackRemovesThePeer ==
    [][(last'.op = "untrack" /\ last'.res = "Ok") =>
          LET u == last'.id
              p == last'.peer
          IN  /\ p \notin Tracked(Store(refs', remotes'), u)
              /\ Tracked(Store(refs', remotes'), u) = Tracked(Now, u) \ {p}
              /\ \A v \in Ids \ {u} : Tracked(Store(refs', remotes'), v) = Tracked(Now, v)
    ]_vars

C16_Witness ==
    /\ last.op = "untrack"
    /\ last.res = "Ok"
    /\ last.peer = "p2"
    /\ Tracked(Now, last.id) = {"p3"}

\* C17: track_signers is idempotent.  From every store on which
\* track_signers(e) succeeds, a second application succeeds and leaves the
\* remotes, hence tracked(u) for every u, as the first left them; and a
\* successful run that directly follows a successful run for the same
\* entity changes no remote.
C17_TrackSignersIdempotent ==
    [][/\ \A e \in SignedEntities \cup Entities :
            LET once == TrackSigners(Store(refs', remotes'), e, 0)
                twice == TrackSigners(once.st, e, 0)
            IN  once.res = "Ok" =>
                    /\ twice.res = "Ok"
                    /\ twice.st.remotes = once.st.remotes
                    /\ \A u \in Ids : Tracked(twice.st, u) = Tracked(once.st, u)
       /\ (/\ last.op = "track_signers" /\ last.res = "Ok"
           /\ last'.op = "track_signers" /\ last'.res = "Ok"
           /\ last'.id = last.id) => remotes' = remotes
    ]_vars

C17_Witness ==
    /\ last.op = "track_signers"
    /\ last.res = "Ok"
    /\ last.id = "h2"
    /\ ops >= 2
    /\ remotes = {TrackingRemoteName("h2", "p2"), TrackingRemoteName("h2", "p3"),
                  TrackingRemoteName("h1", "p3")}

\* C29: after a successful fetch_repo of an identity from a remote peer,
\* every reference remotes/<peer>/rad/ids/<h> whose <h> is a hash has a
\* local symbolic reference rad/ids/<h> to the rad/id of <h>.
C29_FetchedCertifiersAreLinked ==
    (last.op = "fetch_repo" /\ last.res = "Ok")
        => \A h \in Ids :
               RemoteRadCertifier(last.id, last.peer, h) \in DOMAIN refs
                   => /\ RadCertifier(last.id, h) \in DOMAIN refs
                      /\ refs[RadCertifier(last.id, h)] = Symbolic(RadId(h))

\* Entities for which more than one check of create_repo can fail: the
\* catalogue, an unsigned entity with a certifier, and an entity a remote
\* key alone signed, with a certifier.
CheckedEntities ==
    Entities \cup {Entity("h2", {}, {"h1"}), Entity("h2", {Sig("p2", "h1")}, {"h1"})}

\* The first check of create_repo that fails for e on the store, in the
\* order no signatures, not signed by the local key, rad_self_target
\* unresolved, certifier missing; "" when all pass.
FirstFailing(st, e) ==
    IF e.signatures = {} THEN "UnsignedMetadata"
    ELSE IF SignatureBy(e, LocalPeer) = {} THEN "NotSignedBySelf"
    ELSE IF RadSelfTarget(e) # RadId(e.root_hash) /\ ~HasRef(st, RadSelfTarget(e))
    THEN "NoSelf"
    ELSE IF \E c \in e.certifiers : ~HasUrn(st, Urn(c)) THEN "MissingCertifier"
    ELSE ""

\* C30: on every reachable store, create_repo returns the error of the
\* first failing check in the order UnsignedMetadata, NotSignedBySelf,
\* NoSelf, MissingCertifier, whatever later checks would say, makes no
\* backend write and leaves references and remotes exactly as they were;
\* when every check passes it returns none of the four errors.
C30_CreateChecksInOrder ==
    \A e \in CheckedEntities, fault \in CreateFaults :
        LET r == CreateRepo(Now, e, fault)
            first == FirstFailing(Now, e)
        IN  /\ first # "" => /\ r.res = first
                             /\ r.steps = {}
                             /\ r.st.refs = refs
                             /\ r.st.remotes = remotes
            /\ first = "" => r.res \notin {"UnsignedMetadata", "NotSignedBySelf",
                                           "NoSelf", "MissingCertifier"}

\* create_repo has returned NoSelf for a project whose certifier is
\* missing as well, and has written nothing.
C30_Witness ==
    /\ last.op = "create_repo"
    /\ last.res = "NoSelf"
    /\ last.id = "h2"
    /\ last.detail = RadId("h1")
    /\ last.steps = {}
    /\ ~HasUrn(Now, Urn("h1"))
    /\ NamespaceRefs(refs, "h2") = {}

(***************************************************************************)
(* Properties of replication between two peers                             *)
(***************************************************************************)
\* The identities the origin holds, as created there.
OriginCreated == {id \in Ids : HasUrn(origin, Urn(id))}
OriginEntity(id) == AcrossEntity(Metadata(origin, Urn(id)).meta)

\* C22: when clone_repo(url) with url.authority = A.peer_id succeeds on B
\* for an identity e that create_repo put into A's store, B's rad/id is a
\* direct reference to the oid at remotes/<A.peer_id>/rad/id, metadata(e.urn())
\* on B is e, and tracked(e.urn()) on B contains A.peer_id.
C22_CloneRoundTrip ==
    [][(last'.op = "clone_repo" /\ last'.res = "Ok") =>
           LET id == last'.id
               after == Store(refs', remotes')
           IN  /\ id \in OriginCreated
               /\ RadId(id) \in DOMAIN refs'
               /\ RemoteRadId(id, OriginPeer) \in DOMAIN refs'
               /\ refs'[RadId(id)].kind = "direct"
               /\ refs'[RadId(id)].oid = Peel(refs', RemoteRadId(id, OriginPeer), 5)
               /\ refs'[RadId(id)].oid = IdCommit(OriginEntity(id))
               /\ Metadata(after, Urn(id)) = [res |-> "Ok", meta |-> OriginEntity(id)]
               /\ OriginPeer \in Tracked(after, id)
      ]_vars

\* B has cloned from A, starting from an empty store, the project A
\* created as its user.
C22_Witness ==
    /\ last.op = "clone_repo"
    /\ last.res = "Ok"
    /\ last.id = "h2"
    /\ ops = 1
    /\ OriginCreated = {"h1", "h2"}
    /\ Metadata(Now, Urn("h2")) = [res |-> "Ok", meta |-> RemoteProject]
    /\ Tracked(Now, "h2") = {OriginPeer}

\* C23 as claimed: once B tracks A for every identity created on A and
\* has fetched each of them, all_metadata on B yields exactly one result
\* per identity, each decoding to the identity created on A.
C23_ReplicatedAreListed ==
    LET listed == AllMetadata(Now)
    IN  (/\ OriginCreated # {}
         /\ last.op = "fetch_repo"
         /\ last.res = "Ok"
         /\ \A id \in OriginCreated :
                /\ OriginPeer \in Tracked(Now, id)
                /\ RadRefs(id) \in DOMAIN refs)
        => /\ Cardinality(DOMAIN listed) = Cardinality(OriginCreated)
           /\ \A id \in OriginCreated :
                  \E n \in DOMAIN listed :
                      listed[n] = [res |-> "Ok", meta |-> OriginEntity(id)]

(***************************************************************************)
(* Properties of has_commit                                                *)
(***************************************************************************)
\* The commit `name` resolves to is oid or a descendant of oid.
Reaches(name, oid) ==
    LET tip == PeelOid(refs, name, 5)
    IN  tip # 0 /\ (tip = oid \/ oid \in Ancestors(odb, tip))

\* C24 as claimed: when has_commit(u, o) is asked, it is true if and only if o is an
\* existing commit and some reference in u's namespace points to o or to
\* a descendant of o.
C24_HasCommitIffInNamespace ==
    [][(last'.op = "has_commit" /\ refs' = refs /\ odb' = odb) =>
           last'.res = (/\ IsCommit(odb, last'.oid)
                        /\ \E n \in NamespaceRefs(refs, last'.urn.id) :
                               Reaches(n, last'.oid))
      ]_vars

\* C24: when has_commit(u, o) is asked, it is true if and only if o is an existing commit
\* and the one reference u names -- refs/namespaces/<u.id>/refs/<branch>,
\* the branch being u's path without a leading refs/, rad/id when the path
\* is empty -- resolves to o or to a descendant of o; it is false for the
\* zero oid, for an oid of no object and for the oid of a tree.
C24_HasCommitIffBranchReaches ==
    [][(last'.op = "has_commit" /\ refs' = refs /\ odb' = odb) =>
           LET asked == last'
               path == IF asked.urn.path = <<>> THEN <<"refs", "rad", "id">>
                       ELSE asked.urn.path
               branch == IF path[1] = "refs" THEN Tail(path) ELSE path
               name == <<"refs", "namespaces", asked.urn.id, "refs">> \o branch
           IN  /\ asked.res = (/\ asked.oid \in DOMAIN odb
                                /\ odb[asked.oid].kind = "commit"
                                /\ Reaches(name, asked.oid))
               /\ asked.oid = 0 => ~asked.res
               /\ asked.oid \notin DOMAIN odb => ~asked.res
               /\ (asked.oid \in DOMAIN odb /\ odb[asked.oid] = TreeObject) => ~asked.res
      ]_vars

\* has_commit has answered true for a commit that is a proper ancestor of
\* the tip of the branch asked about.
C24_Witness ==
    /\ last.op = "has_commit"
    /\ last.res
    /\ last.urn.path = <<"rad", "refs">>
    /\ PeelOid(refs, RadRefs(last.urn.id), 5) # last.oid
    /\ RadId(last.urn.id) \in DOMAIN refs

\* C28: open_or_init on a path without a store (open fails with the
\* backend's not-found error) initialises it for the signer; on an
\* initialised store it opens, never re-initialises and leaves the stored
\* peer id as it is, whether the signer matches or not; on a store whose
\* configuration cannot be read it returns that error of open and
\* initialises nothing; init on a path that holds a store fails and leaves
\* the store, and its peer id, as it is.
C28_OpenOrInitInitialisesOnlyWhenAbsent ==
    /\ (last.op = "open_or_init" /\ last.stored.state = "absent")
           => /\ last.res \in {"Ok", "Config"}
              /\ last.res = "Ok" =>
                     /\ disk = Ready(PeerIdOfSigner(last.signer))
                     /\ last.yielded = <<Handle(PeerIdOfSigner(last.signer), last.signer)>>
              /\ last.res = "Config" => disk = Bare /\ last.yielded = <<>>
    /\ (last.op = "open_or_init" /\ last.stored.state = "ready")
           => /\ disk = last.stored
              /\ last.res = IF last.stored.peer_id = PeerIdOfSigner(last.signer)
                            THEN "Ok" ELSE "SignerKeyMismatch"
              /\ last.res = "Ok" =>
                     last.yielded = <<Handle(last.stored.peer_id, last.signer)>>
    /\ (last.op = "open_or_init" /\ last.stored.state = "bare")
           => /\ last.res = "Config"
              /\ disk = last.stored
              /\ last.yielded = <<>>
    /\ (last.op = "init" /\ last.stored.state # "absent")
           => /\ last.res = "GitExists"
              /\ disk = last.stored
              /\ last.yielded = <<>>

\* open_or_init has met a store without a readable configuration and
\* returned the error of open.
C28_Witness ==
    /\ last.op = "open_or_init"
    /\ last.stored = Bare
    /\ last.res = "Config"
    /\ disk = Bare

(***************************************************************************)
(* Properties of the rate-limited wrapper                                  *)
(***************************************************************************)
\* The calls answered false through the given wrappers.
RECURSIVE PassedThrough(_, _)
PassedThrough(ws, set) ==
    IF set = {} THEN 0
    ELSE LET w == CHOOSE x \in set : TRUE
         IN  ws[w].passed + PassedThrough(ws, set \ {w})

\* The wrappers holding limiter l.
Holders(ws, l) == {w \in DOMAIN ws : ws[w].limiter = l}

\* The wrapper made by `from` and its clones.
Family(ws, r) == {w \in DOMAIN ws : ws[w].root = r}

\* C25: the quota is 5 per second and a new bucket is full; a call of
\* is_error_rate_limit_breached returns true exactly when the bucket is
\* empty, and takes a token when it returns false; so on a bucket that no
\* token was replenished to, the call returns false while fewer than 5
\* calls have been answered false and true from then on; when time passes,
\* an empty bucket regains a token.
C25_BreachedIffBucketEmpty ==
    [][/\ QuotaPerSecond = 5
       /\ last'.op = "from" => limiters'[Len(limiters')].tokens = 5
       /\ last'.op = "is_error_rate_limit_breached" =>
              LET l == wrappers[last'.wrapper].limiter
                  before == limiters[l]
              IN  /\ last'.res = (before.tokens = 0)
                  /\ limiters'[l].tokens = IF last'.res THEN 0 ELSE before.tokens - 1
                  /\ before.refilled = 0 =>
                         last'.res = (PassedThrough(wrappers, Holders(wrappers, l)) >= 5)
       /\ last'.op = "time" =>
              \A l \in DOMAIN limiters :
                  limiters[l].tokens = 0 => limiters'[l].tokens = 1
      ]_vars

\* The sixth call in a row through one wrapper has returned true.
C25_Witness ==
    /\ last.op = "is_error_rate_limit_breached"
    /\ last.res
    /\ Len(wrappers) = 1
    /\ wrappers[1].passed = 5
    /\ limiters[1] = [tokens |-> 0, refilled |-> 0]

\* C26: a wrapper and all its clones hold one limiter, and the calls
\* answered false through all of them together are the tokens taken from
\* that one bucket: its quota, plus the tokens replenished, less the tokens
\* left; put, ask and get return what the wrapped storage returns, also
\* when the bucket is empty, and take no token.
C26_ClonesShareOneBucket ==
    [][/\ \A r \in DOMAIN wrappers' :
              LET l == wrappers'[r].limiter
              IN  wrappers'[r].root = r =>
                      /\ \A w \in Family(wrappers', r) : wrappers'[w].limiter = l
                      /\ PassedThrough(wrappers', Family(wrappers', r))
                             = QuotaPerSecond + limiters'[l].refilled - limiters'[l].tokens
                      /\ PassedThrough(wrappers', Family(wrappers', r))
                             <= QuotaPerSecond + limiters'[l].refilled
       /\ last'.op \in {"put", "ask", "get"} =>
              /\ last'.res = last'.inner
              /\ limiters' = limiters
              /\ wrappers' = wrappers
      ]_vars

\* Two clones of one wrapper have both had calls answered false, the
\* bucket is empty, and a pass-through call has returned the wrapped
\* storage's answer.
C26_Witness ==
    /\ last.op \in {"put", "ask", "get"}
    /\ last.res = "Ok"
    /\ Len(wrappers) >= 2
    /\ wrappers[1].limiter = wrappers[2].limiter
    /\ wrappers[1].passed > 0
    /\ wrappers[2].passed > 0
    /\ wrappers[1].passed + wrappers[2].passed = QuotaPerSecond
    /\ limiters[wrappers[1].limiter].tokens = 0

(***************************************************************************)
(* Properties of rad_refs and of repeated fetches                          *)
(***************************************************************************)
\* The subtree of a Remotes tree below the first-level peer p.
Below(tree, p) ==
    {SubSeq(q, 2, Len(q)) : q \in {x \in tree : Len(x) > 1 /\ x[1] = p}}

\* C31: on every reachable store and for every identity, rad_refs
\* succeeds; the first level of its remotes is exactly tracked(urn); a
\* tracked peer whose snapshot is absent or does not verify against that
\* peer's key has an empty subtree, and a peer whose snapshot verifies has
\* the cut-off remotes of that snapshot.
C31_RadRefsSkipsInvalidSnapshots ==
    \A id \in Ids :
        LET r == RadRefsNow(Now, id)
        IN  /\ r.res = "Ok"
            /\ {q[1] : q \in r.refs.remotes} = Tracked(Now, id)
            /\ \A p \in Tracked(Now, id) :
                   LET signed == RadRefsOf(Now, id, p)
                   IN  Below(r.refs.remotes, p) =
                           IF signed.res = "Ok" THEN Cutoff(signed.refs.remotes) ELSE {}

C33_FailedCloneSparesTheOther ==
    \A h \in RaceHandles :
        (/\ calls[h].op \in {"create_repo", "clone_repo"}
         /\ calls[h].pc = "done"
         /\ calls[h].res = "Ok")
            => HasUrn(Now, Urn(calls[h].id))

\* What a reader sees of an identity half created: has_urn holds, rad/self
\* and every rad/ids link are absent.
HalfCreated(st, id) ==
    /\ HasUrn(st, Urn(id))
    /\ ~HasRef(st, RadSelf(id))
    /\ \A c \in Ids : ~HasRef(st, RadCertifier(id, c))

\* Handle h is in create_repo for id, has committed rad/id and has not
\* created rad/self: it is about to create it, or the backend refused it
\* and delete_repo has not run yet.
BeforeSymrefs(h, id) ==
    /\ calls[h].op = "create_repo"
    /\ calls[h].id = id
    /\ calls[h].pc \in {"symref_self", "rollback"}

C6_SignerMatchesPeerId ==
    /\ \A i \in DOMAIN handles :
           /\ handles[i].signer # NoSigner
                => handles[i].peer_id = PeerIdOfSigner(handles[i].signer)
           /\ disk.state = "ready" /\ handles[i].peer_id = disk.peer_id
    /\ (last.op \in {"with_signer", "open_or_init"}
        /\ last.stored.state = "ready"
        /\ last.stored.peer_id # PeerIdOfSigner(last.signer))
           => last.res = "SignerKeyMismatch" /\ last.yielded = <<>>
    /\ (last.op = "init" /\ last.res = "Ok")
           => disk = Ready(PeerIdOfSigner(last.signer))
    /\ (last.op = "open" /\ last.stored.state = "ready")
           => /\ last.res = "Ok"
              /\ last.yielded = <<Handle(last.stored.peer_id, NoSigner)>>
              /\ disk = last.stored

C6_Witness ==
    /\ last.op = "with_signer"
    /\ last.res = "SignerKeyMismatch"
    /\ \E i \in DOMAIN handles : handles[i].signer # NoSigner
    /\ \E i \in DOMAIN handles : handles[i].signer = NoSigner

\* C7: at most one create call is constructing a Storage at any time; on
\* an uninitialised path exactly one call initialises the store, every
\* other call opens it, and no call fails.
C7_CreateIsSerialised ==
    /\ Cardinality({t \in Tasks : pc[t] \in Constructing}) <= 1
    /\ \A t \in Tasks : made[t] \in {"none", "opened", "initialised"}
    /\ Cardinality({t \in Tasks : made[t] = "initialised"}) <= 1
    /\ (\E t \in Tasks : pc[t] = "done")
           => Cardinality({t \in Tasks : made[t] = "initialised"}) = 1
    /\ \A t \in Tasks : pc[t] = "done" => made[t] # "none"

C7_Witness ==
    /\ \A t \in Tasks : pc[t] = "done"
    /\ \E t \in Tasks : made[t] = "initialised"
    /\ \E t \in Tasks : made[t] = "opened"

====
